---- MODULE Spec2Model ----
(***************************************************************************)
(* A state-machine model of the Duplex stream of node/_stream/duplex.ts:   *)
(* its ReadableState and WritableState, the microtask queue, and the       *)
(* operations push, read, write, cork, uncork, end, destroy, on, pause,    *)
(* resume and pipe; and of joinToString of collections/join_to_string.ts.  *)
(*                                                                         *)
(* The helpers that duplex.ts imports from readable_internal.ts,           *)
(* duplex_internal.ts, writable.ts and writable_internal.ts are modelled   *)
(* from the specification of the engine (spec.md sections 3 to 7).         *)
(***************************************************************************)
EXTENDS Integers, Sequences, FiniteSets, TLC

VARIABLES
  r,           \* this._readableState
  w,           \* this._writableState
  opts,        \* construction options and fields of the Duplex itself
  microtasks,  \* the queueMicrotask queue, FIFO
  events,      \* how often each notification was emitted, calls of the hooks
  teardown,    \* the _destroy hook: not called, running, or its callback done
  inDestroy,   \* control is inside destroy(), in a user _destroy hook
  endpc,       \* position inside end(): idle, or between finishMaybe and return
  endErr,      \* the err local of the end() call in progress or last made
  endCb,       \* what the last end() call did with its callback
  writeErr,    \* what the last write() call reported to its caller
  sink,        \* the sink: the write handed to _write, the state of _final
  completed,   \* ids of the writes whose completion callback fired, in order
  accepted,    \* ids of the writes accepted, in submission order
  pushed,      \* the chunks push() accepted, in push order
  observed,    \* what read() returned to the consumer, in order
  dests,       \* the sinks of pipe(): what each was handed and still holds
  join,        \* a joinToString call: its arguments, and its result once made
  readRet,     \* the value of the last read()
  pushRet      \* the value of the last push()

vars == <<r, w, opts, microtasks, events, teardown, inDestroy, endpc, endErr,
          endCb, writeErr, sink, completed, accepted, pushed, observed,
          dests, join, readRet, pushRet>>

----------------------------------------------------------------------------
(* Bounds of the model *)

\* chunks pushed into the read side in one behaviour
MaxPush == 2
\* elements of the array handed to joinToString
MaxLen == 3
\* microtasks queued at one time
MaxTasks == 2
\* notification counters stop counting here
MaxCount == 2
\* write() calls accepted in one behaviour
MaxWrite == 2
\* callbacks of end() waiting for the write side to finish
MaxOnFinished == 2
\* nesting depth of cork()
MaxCork == 2

----------------------------------------------------------------------------
(* Values *)

\* the null of push(null) and of read()'s result; a chunk is a non-empty
\* sequence of bytes (or, in object mode, one object)
null == <<>>
\* the n of read() with no argument (duplex.ts line 361); the model writes
\* every comparison with it out as JavaScript evaluates it
NaN == -1
NoErr == "null"
Errs == {"E1", "E2"}
Chunks == {<<"a">>, <<"b", "c">>}
ReadSizes == {NaN, 0, 1, 2, 3}
HighWaterMarks == {1, 2}
\* the sinks a stream can be piped to, and the highWaterMark of each, in
\* chunks: sink 1 signals backpressure on every chunk, sink 2 on the second
Dests == {1, 2}
DestHighWaterMark(d) == d

Inc(x) == IF x < MaxCount THEN x + 1 ELSE x

\* the outcomes of a destroy() whose order a behaviour records under "log"
Logged == {"destroyCb(err)", "error", "close"}

Task(kind, err) == [kind |-> kind, err |-> err]

RECURSIVE Flatten(_)
Flatten(b) == IF b = <<>> THEN <<>> ELSE Head(b) \o Flatten(Tail(b))

RECURSIVE consume(_, _)
consume(b, n) ==
  IF n = 0 \/ b = <<>> THEN b
  ELSE IF Len(Head(b)) <= n THEN consume(Tail(b), n - Len(Head(b)))
  ELSE <<SubSeq(Head(b), n + 1, Len(Head(b)))>> \o Tail(b)

RECURSIVE pow2ceil(_, _)
pow2ceil(p, n) == IF p >= n THEN p ELSE pow2ceil(2 * p, n)

\* computeNewHighWaterMark stepping down to the power of two below.
computeNewHighWaterMark_below(n) == pow2ceil(1, n) \div 2

computeNewHighWaterMark(n) == pow2ceil(1, n)

----------------------------------------------------------------------------
(* collections/join_to_string.ts; a string is the sequence of its           *)
(* characters                                                               *)

Elements == {<<"A">>, <<"B">>}
Arrays == UNION {[1..n -> Elements] : n \in 0..MaxLen}
Selectors == {"identity", "doctor"}
Delimiters == {<<>>, <<"+">>, <<"&", "&">>}

\* the selectors of the tests: (it) => it, and (it) => `Dr${it}`
select(selector, el) == IF selector = "doctor" THEN <<"D", "r">> \o el ELSE el

NoCall == [called |-> FALSE]

\* joinToString(array, selector, delimiter) (join_to_string.ts lines 23-36):
\* ret is "" and is returned as it is; the array is not written to.
joinToString(array, selector, delimiter) == <<>>

----------------------------------------------------------------------------
(* The state the helpers work on: one record of everything an operation of  *)
(* the stream can change.                                                   *)

World ==
  [r |-> r, w |-> w, q |-> microtasks, ev |-> events, td |-> teardown,
   sink |-> sink, completed |-> completed, accepted |-> accepted,
   pushed |-> pushed, observed |-> observed, dests |-> dests]

Commit(st) ==
  /\ Len(st.q) <= MaxTasks
  /\ r' = st.r
  /\ w' = st.w
  /\ microtasks' = st.q
  /\ events' = st.ev
  /\ teardown' = st.td
  /\ sink' = st.sink
  /\ completed' = st.completed
  /\ accepted' = st.accepted
  /\ pushed' = st.pushed
  /\ observed' = st.observed
  /\ dests' = st.dests
  /\ join' = join

\* v is evaluated once and handed to F.
With(v, F(_)) == CHOOSE y \in {F(x) : x \in {v}} : TRUE

\* A notification is emitted (or a hook called); the behaviour counts those
\* named in events.
emit(st, name) ==
  IF name \notin DOMAIN st.ev THEN st
  ELSE IF "log" \in DOMAIN st.ev /\ name \in Logged
       THEN [st EXCEPT !.ev[name] = Inc(@), !.ev["log"] = Append(@, name)]
  ELSE [st EXCEPT !.ev[name] = Inc(@)]

\* What was counted under name since it was last settled: the calls of a hook
\* still waiting for their answer.
settle(st, name) ==
  IF name \in DOMAIN st.ev THEN [st EXCEPT !.ev[name] = 0] ELSE st

queueMicrotask(st, kind, err) == [st EXCEPT !.q = Append(@, Task(kind, err))]

----------------------------------------------------------------------------
(* destroy (duplex.ts lines 190-288) *)

\* destroyNT without the test of errorEmitted (line 260).
destroyNT_unguarded(st0, err) ==
  With(st0, LAMBDA st :
    With(IF err # NoErr
         THEN emit([st EXCEPT !.w.errorEmitted = TRUE,
                              !.r.errorEmitted = TRUE], "error")
         ELSE st,
         LAMBDA st1 :
           IF st1.w.emitClose \/ st1.r.emitClose
           THEN emit([st1 EXCEPT !.r.closeEmitted = TRUE], "close")
           ELSE [st1 EXCEPT !.r.closeEmitted = TRUE]))

\* The microtask queued by the callback destroy() hands to _destroy: the
\* deferred "error" and "close" notifications (lines 255-284).
\* destroyNT emitting "close" only, whatever the teardown hook reported.
destroyNT_closeOnly(st0, err) ==
  With(st0, LAMBDA st :
    IF st.w.emitClose \/ st.r.emitClose
    THEN emit([st EXCEPT !.r.closeEmitted = TRUE], "close")
    ELSE [st EXCEPT !.r.closeEmitted = TRUE])

destroyNT_closeFirst(st0, err) ==
  With(st0, LAMBDA st :
    With(IF st.w.emitClose \/ st.r.emitClose
         THEN emit([st EXCEPT !.r.closeEmitted = TRUE], "close")
         ELSE [st EXCEPT !.r.closeEmitted = TRUE],
         LAMBDA st1 :
           IF err # NoErr /\ ~st1.w.errorEmitted /\ ~st1.r.errorEmitted
           THEN emit([st1 EXCEPT !.w.errorEmitted = TRUE,
                                 !.r.errorEmitted = TRUE], "error")
           ELSE st1))

destroyNT(st0, err) ==
  With(st0, LAMBDA st :
    With(IF err # NoErr /\ ~st.w.errorEmitted /\ ~st.r.errorEmitted
         THEN emit([st EXCEPT !.w.errorEmitted = TRUE,
                              !.r.errorEmitted = TRUE], "error")
         ELSE st,
         LAMBDA st1 :
           IF st1.w.emitClose \/ st1.r.emitClose
           THEN emit([st1 EXCEPT !.r.closeEmitted = TRUE], "close")
           ELSE [st1 EXCEPT !.r.closeEmitted = TRUE]))

\* The callback given to destroy() is called, with the error of the teardown
\* hook or without one.
callDestroyCb(st, err) ==
  emit(st, IF err # NoErr THEN "destroyCb(err)" ELSE "destroyCb()")

\* destroyCallback recording the hook's error on the write side only.
destroyCallback_writeSideOnly(st0, err) ==
  With(st0, LAMBDA st :
    With([st EXCEPT
            !.w.errored = IF err # NoErr /\ @ = NoErr THEN err ELSE @,
            !.w.closed = TRUE,
            !.r.closed = TRUE,
            !.td.state = "done"],
         LAMBDA st1 :
           queueMicrotask(IF st.td.cb THEN emit(st1, "destroyCb") ELSE st1,
                          "destroyNT", err)))

\* The callback destroy() hands to _destroy, called with err (lines 235-285).
destroyCallback(st0, err) ==
  With(st0, LAMBDA st :
    With([st EXCEPT
            !.w.errored = IF err # NoErr /\ @ = NoErr THEN err ELSE @,
            !.r.errored = IF err # NoErr /\ @ = NoErr THEN err ELSE @,
            !.w.closed = TRUE,
            !.r.closed = TRUE,
            !.td.state = "done"],
         LAMBDA st1 :
           queueMicrotask(IF st.td.cb THEN callDestroyCb(st1, err) ELSE st1,
                          "destroyNT", err)))

\* Duplex.prototype._destroy, the default teardown hook: callback(error).
_destroy(st, error) == destroyCallback(st, error)

\* destroy recording its error on a stream already destroyed.
destroy_recordsLateError(st0, err, cb) ==
  With(emit(st0, "destroy()"), LAMBDA st :
    IF st.w.destroyed \/ st.r.destroyed
    THEN [st EXCEPT !.w.errored = IF err # NoErr /\ @ = NoErr THEN err ELSE @,
                    !.r.errored = IF err # NoErr /\ @ = NoErr THEN err ELSE @]
    ELSE With(emit([st EXCEPT
                      !.w.errored = IF err # NoErr /\ @ = NoErr THEN err ELSE @,
                      !.r.errored = IF err # NoErr /\ @ = NoErr THEN err ELSE @,
                      !.w.destroyed = TRUE,
                      !.r.destroyed = TRUE,
                      !.td = [state |-> "running", err |-> err, cb |-> cb]],
                   "_destroy"),
              LAMBDA st1 : IF opts.destroy THEN st1 ELSE _destroy(st1, err)))

\* destroy marking the write side only before it calls the teardown hook.
destroy_writeSideFirst(st0, err, cb) ==
  With(emit(st0, "destroy()"), LAMBDA st :
    IF st.w.destroyed \/ st.r.destroyed
    THEN IF cb THEN emit(st, "destroyCb") ELSE st
    ELSE With(emit([st EXCEPT
                      !.w.errored = IF err # NoErr /\ @ = NoErr THEN err ELSE @,
                      !.r.errored = IF err # NoErr /\ @ = NoErr THEN err ELSE @,
                      !.w.destroyed = TRUE,
                      !.td = [state |-> "running", err |-> err, cb |-> cb]],
                   "_destroy"),
              LAMBDA st1 : IF opts.destroy THEN st1 ELSE _destroy(st1, err)))

\* destroy without the early return of lines 212-218.
destroy_everyCall(st0, err, cb) ==
  With(emit(st0, "destroy()"), LAMBDA st :
    With(emit([st EXCEPT
                 !.w.errored = IF err # NoErr /\ @ = NoErr THEN err ELSE @,
                 !.r.errored = IF err # NoErr /\ @ = NoErr THEN err ELSE @,
                 !.w.destroyed = TRUE,
                 !.r.destroyed = TRUE,
                 !.td = [state |-> "running", err |-> err, cb |-> cb]],
              "_destroy"),
         LAMBDA st1 : IF opts.destroy THEN st1 ELSE _destroy(st1, err)))

\* destroy(err, cb) up to the point where a user-supplied _destroy hook has
\* been entered; the default hook completes inside the call.
\* destroy handing its error to the callback of a call on a stream already
\* destroyed.
destroy_lateCallbackError(st0, err, cb) ==
  With(emit(st0, "destroy()"), LAMBDA st :
    IF st.w.destroyed \/ st.r.destroyed
    THEN IF cb THEN callDestroyCb(st, err) ELSE st
    ELSE With(emit([st EXCEPT
                      !.w.errored = IF err # NoErr /\ @ = NoErr THEN err ELSE @,
                      !.r.errored = IF err # NoErr /\ @ = NoErr THEN err ELSE @,
                      !.w.destroyed = TRUE,
                      !.r.destroyed = TRUE,
                      !.td = [state |-> "running", err |-> err, cb |-> cb]],
                   "_destroy"),
              LAMBDA st1 : IF opts.destroy THEN st1 ELSE _destroy(st1, err)))

destroy(st0, err, cb) ==
  With(emit(st0, "destroy()"), LAMBDA st :
    IF st.w.destroyed \/ st.r.destroyed
    THEN IF cb THEN callDestroyCb(st, NoErr) ELSE st
    ELSE With(emit([st EXCEPT
                      !.w.errored = IF err # NoErr /\ @ = NoErr THEN err ELSE @,
                      !.r.errored = IF err # NoErr /\ @ = NoErr THEN err ELSE @,
                      !.w.destroyed = TRUE,
                      !.r.destroyed = TRUE,
                      !.td = [state |-> "running", err |-> err, cb |-> cb]],
                   "_destroy"),
              LAMBDA st1 : IF opts.destroy THEN st1 ELSE _destroy(st1, err)))

\* The "error" notification of errorOrDestroy, deduplicated over both sides.
emitErrorNT(st0, err) ==
  With(st0, LAMBDA st :
    IF st.w.errorEmitted \/ st.r.errorEmitted THEN st
    ELSE emit([st EXCEPT !.w.errorEmitted = TRUE, !.r.errorEmitted = TRUE],
              "error"))

\* errorOrDestroy of duplex_internal.ts: a failure of either side destroys the
\* stream (autoDestroy) or is recorded on both sides and notified once.
errorOrDestroy(st0, err, sync) ==
  With(st0, LAMBDA st :
    IF st.w.destroyed \/ st.r.destroyed THEN st
    ELSE IF st.r.autoDestroy \/ st.w.autoDestroy THEN destroy(st, err, FALSE)
    ELSE With([st EXCEPT !.w.errored = IF @ = NoErr THEN err ELSE @,
                         !.r.errored = IF @ = NoErr THEN err ELSE @],
              LAMBDA st1 : IF sync THEN queueMicrotask(st1, "emitErrorNT", err)
                           ELSE emitErrorNT(st1, err)))

----------------------------------------------------------------------------
(* The read side *)

chunkLength(s, chunk) == IF s.objectMode THEN 1 ELSE Len(chunk)

\* What a chunk or a read() result adds to the sequence the consumer sees:
\* its bytes, or in object mode the object itself.
Delivered(s, data) == IF s.objectMode THEN <<data>> ELSE data

RECURSIVE read(_, _, _)
RECURSIVE flow(_)

\* pause(): the stream leaves the flowing mode.
pause(st) ==
  IF st.r.flowing # "false" THEN emit([st EXCEPT !.r.flowing = "false"], "pause")
  ELSE st

\* dest.write(chunk) of sink d: the chunk is taken in any case, and the
\* answer is false once the sink holds its highWaterMark.
destWrite(st, d, chunk) ==
  [st EXCEPT !.dests[d].pending = @ + 1,
             !.dests[d].delivered = @ \o Delivered(st.r, chunk),
             !.dests[d].needDrain =
                IF st.dests[d].pending + 1 < DestHighWaterMark(d) THEN @
                ELSE TRUE]

destWriteResult(st, d) == st.dests[d].pending + 1 < DestHighWaterMark(d)

\* ondata when the answer false of the sink does not pause the source.
ondata_noPause(st, d, chunk) ==
  IF destWriteResult(st, d) THEN destWrite(st, d, chunk)
  ELSE [destWrite(st, d, chunk) EXCEPT !.r.awaitDrainWriters = @ \cup {d}]

\* The "data" listener of the pipe to sink d: the chunk is written to the
\* sink; on the answer false the drain of the sink is awaited and the source
\* is paused.
ondata(st, d, chunk) ==
  IF destWriteResult(st, d) THEN destWrite(st, d, chunk)
  ELSE pause([destWrite(st, d, chunk) EXCEPT
                !.r.awaitDrainWriters = @ \cup {d}])

\* this.emit("data", ret): the notification is counted and the value it
\* carries is kept when a behaviour records it under "last data".
emitChunk(st0, chunk) ==
  With(emit(st0, "data"), LAMBDA st :
    IF "last data" \in DOMAIN st.ev THEN [st EXCEPT !.ev["last data"] = chunk]
    ELSE st)

\* emit("data", chunk): the listeners of the pipes run in the order in which
\* the sinks were attached.
RECURSIVE emitData(_, _, _)
emitData(st, ds, chunk) ==
  IF ds = <<>> THEN st
  ELSE emitData(ondata(st, Head(ds), chunk), Tail(ds), chunk)

\* emitReadable queueing a notification whether one is pending or not.
emitReadable_unguarded(st0) ==
  With(st0, LAMBDA st :
    queueMicrotask([st EXCEPT !.r.needReadable = FALSE,
                              !.r.emittedReadable = TRUE],
                   "emitReadable_", NoErr))

emitReadable(st0) ==
  With(st0, LAMBDA st :
    IF ~st.r.emittedReadable
    THEN queueMicrotask([st EXCEPT !.r.needReadable = FALSE,
                                   !.r.emittedReadable = TRUE],
                        "emitReadable_", NoErr)
    ELSE [st EXCEPT !.r.needReadable = FALSE])

emitReadable_(st0) ==
  With(st0, LAMBDA st :
    With(IF ~st.r.destroyed /\ st.r.errored = NoErr
              /\ (st.r.length > 0 \/ st.r.ended)
         THEN emit(emit([st EXCEPT !.r.emittedReadable = FALSE], "readable"),
                   "readable since read")
         ELSE st,
         LAMBDA st1 :
           flow([st1 EXCEPT !.r.needReadable =
                   (st.r.flowing # "true") /\ ~st.r.ended
                     /\ st.r.length <= st.r.highWaterMark])))

endDuplex(st0) ==
  With(st0, LAMBDA st :
    IF ~st.r.endEmitted
    THEN queueMicrotask([st EXCEPT !.r.ended = TRUE], "endReadableNT", NoErr)
    ELSE st)

onEofChunk(st0) ==
  With(st0, LAMBDA st :
    IF st.r.ended THEN st
    ELSE IF st.r.sync THEN emitReadable([st EXCEPT !.r.ended = TRUE])
    ELSE emitReadable_([st EXCEPT !.r.ended = TRUE,
                                  !.r.needReadable = FALSE,
                                  !.r.emittedReadable = TRUE]))

\* addChunk counting every chunk as one, in byte mode too.
addChunk_countsOne(st0, chunk) ==
  With(st0, LAMBDA st :
    With([st EXCEPT !.r.length = @ + 1,
                    !.r.buffer = Append(@, chunk),
                    !.pushed = Append(@, chunk)],
         LAMBDA st1 : IF st1.r.needReadable THEN emitReadable(st1) ELSE st1))

addChunk(st0, chunk) ==
  With(st0, LAMBDA st :
    IF /\ st.r.flowing = "true"
       /\ st.r.length = 0
       /\ ~st.r.sync
       /\ st.r.pipes # <<>>
    THEN emitData(emit([st EXCEPT !.r.awaitDrainWriters = {},
                                  !.r.dataEmitted = TRUE,
                                  !.pushed = Append(@, chunk),
                                  !.observed = @ \o Delivered(st.r, chunk)],
                       "data"),
                  st.r.pipes, chunk)
    ELSE
    With([st EXCEPT !.r.length = @ + chunkLength(st.r, chunk),
                    !.r.buffer = Append(@, chunk),
                    !.pushed = Append(@, chunk)],
         LAMBDA st1 : IF st1.r.needReadable THEN emitReadable(st1) ELSE st1))

\* readableAddChunk without the test of state.ended.
readableAddChunk_afterEnd(st0, chunk) ==
  With(st0, LAMBDA st :
    IF st.r.destroyed THEN st
    ELSE IF chunk = null
         THEN onEofChunk(settle([st EXCEPT !.r.reading = FALSE], "fill"))
    ELSE IF st.r.errored # NoErr THEN st
    ELSE addChunk(settle([st EXCEPT !.r.reading = FALSE], "fill"), chunk))

\* readableAddChunk(stream, chunk, encoding, false): push(null) is the end of
\* the data; a chunk is refused after the end and on a destroyed or errored
\* stream, and buffered otherwise.
readableAddChunk(st0, chunk) ==
  With(st0, LAMBDA st :
    IF st.r.destroyed THEN st
    ELSE IF chunk = null
         THEN onEofChunk(settle([st EXCEPT !.r.reading = FALSE], "fill"))
    ELSE IF st.r.ended
         THEN errorOrDestroy(st, "ERR_STREAM_PUSH_AFTER_EOF", FALSE)
    ELSE IF st.r.errored # NoErr THEN st
    ELSE addChunk(settle([st EXCEPT !.r.reading = FALSE], "fill"), chunk))

\* The value push() returns once readableAddChunk has run on pre, giving post.
pushResult(pre, post) ==
  /\ ~pre.r.destroyed
  /\ pre.r.errored = NoErr
  /\ ~post.r.ended
  /\ (post.r.length < post.r.highWaterMark \/ post.r.length = 0)

\* push(chunk) (duplex.ts lines 351-353)
push(st, chunk) == readableAddChunk(st, chunk)

\* howMuchToRead answering as for read() when n is 0.
howMuchToRead_zeroAsAll(n, s) ==
  IF (n # NaN /\ n < 0) \/ (s.length = 0 /\ s.ended) THEN 0
  ELSE IF s.objectMode THEN 1
  ELSE IF n = NaN \/ n = 0
       THEN IF s.flowing = "true" /\ s.length > 0 THEN Len(Head(s.buffer))
            ELSE s.length
  ELSE IF n <= s.length THEN n
  ELSE IF s.ended THEN s.length ELSE 0

howMuchToRead(n, s) ==
  IF (n # NaN /\ n <= 0) \/ (s.length = 0 /\ s.ended) THEN 0
  ELSE IF s.objectMode THEN 1
  ELSE IF n = NaN
       THEN IF s.flowing = "true" /\ s.length > 0 THEN Len(Head(s.buffer))
            ELSE s.length
  ELSE IF n <= s.length THEN n
  ELSE IF s.ended THEN s.length ELSE 0

\* fromList(n, state): the data taken from the head of the buffer and the
\* buffer left behind.
fromList(n, s) ==
  IF s.length = 0 THEN [ret |-> null, buffer |-> s.buffer]
  ELSE IF s.objectMode THEN [ret |-> Head(s.buffer), buffer |-> Tail(s.buffer)]
  ELSE IF n = 0 \/ n >= s.length
       THEN [ret |-> Flatten(s.buffer), buffer |-> <<>>]
  ELSE [ret |-> SubSeq(Flatten(s.buffer), 1, n), buffer |-> consume(s.buffer, n)]

\* What the producer's _read(size) does before it returns: nothing (it will
\* push later, or never), or one synchronous push of a chunk or of null.
Fills ==
  {[kind |-> "defer", chunk |-> null]}
    \cup {[kind |-> "push", chunk |-> c] : c \in Chunks \cup {null}}

\* A producer whose _read(size) calls read(n) on the stream it fills.
ReentrantFills == {[kind |-> "read", chunk |-> null, n |-> n] : n \in {NaN, 1}}

_read(st, fill) ==
  IF fill.kind = "push" THEN push(st, fill.chunk)
  ELSE IF fill.kind = "read"
       THEN read(st, fill.n, [kind |-> "defer", chunk |-> null]).st
  ELSE st

\* readFill without the test of state.reading (line 411).
readFill_unguarded(st, nOrig, n1, fill) ==
  IF /\ ~(st.r.ended \/ st.r.destroyed
            \/ st.r.errored # NoErr \/ ~st.r.constructed)
     /\ (st.r.needReadable \/ st.r.length = 0
           \/ st.r.length - n1 < st.r.highWaterMark)
  THEN With(_read(emit(emit([st EXCEPT !.r.reading = TRUE,
                                       !.r.sync = TRUE,
                                       !.r.needReadable =
                                          IF st.r.length = 0 THEN TRUE ELSE @],
                            "_read"),
                       "fill"),
                  fill),
            LAMBDA a :
              [st |-> [a EXCEPT !.r.sync = FALSE],
               n |-> IF ~a.r.reading THEN howMuchToRead(nOrig, a.r) ELSE n1])
  ELSE [st |-> st, n |-> n1]

\* readFill testing only state.reading at lines 410-413.
readFill_anyState(st, nOrig, n1, fill) ==
  IF /\ ~st.r.reading
     /\ (st.r.needReadable \/ st.r.length = 0
           \/ st.r.length - n1 < st.r.highWaterMark)
  THEN With(_read(emit(emit([st EXCEPT !.r.reading = TRUE,
                                       !.r.sync = TRUE,
                                       !.r.needReadable =
                                          IF st.r.length = 0 THEN TRUE ELSE @],
                            "_read"),
                       "fill"),
                  fill),
            LAMBDA a :
              [st |-> [a EXCEPT !.r.sync = FALSE],
               n |-> IF ~a.r.reading THEN howMuchToRead(nOrig, a.r) ELSE n1])
  ELSE [st |-> st, n |-> n1]

\* read(n), lines 400-428: whether to call _read, the call, and n afterwards.
readFill(st, nOrig, n1, fill) ==
  IF /\ ~(st.r.ended \/ st.r.reading \/ st.r.destroyed
            \/ st.r.errored # NoErr \/ ~st.r.constructed)
     /\ (st.r.needReadable \/ st.r.length = 0
           \/ st.r.length - n1 < st.r.highWaterMark)
  THEN With(_read(emit(emit([st EXCEPT !.r.reading = TRUE,
                                       !.r.sync = TRUE,
                                       !.r.needReadable =
                                          IF st.r.length = 0 THEN TRUE ELSE @],
                            "_read"),
                       "fill"),
                  fill),
            LAMBDA a :
              [st |-> [a EXCEPT !.r.sync = FALSE],
               n |-> IF ~a.r.reading THEN howMuchToRead(nOrig, a.r) ELSE n1])
  ELSE [st |-> st, n |-> n1]

\* readTake when the data returned is left in the buffer.
readTake_bufferKept(st, n2) ==
  With(IF n2 > 0 THEN fromList(n2, st.r)
       ELSE [ret |-> null, buffer |-> st.r.buffer],
       LAMBDA got :
         IF got.ret = null
         THEN [st |-> [st EXCEPT !.r.needReadable =
                                    st.r.length <= st.r.highWaterMark],
               ret |-> null, n |-> 0]
         ELSE [st |-> [st EXCEPT !.r.length = @ - n2,
                                 !.r.awaitDrainWriters = {}],
               ret |-> got.ret, n |-> n2])

\* read(n), lines 430-447: the data taken from the buffer.
readTake(st, n2) ==
  With(IF n2 > 0 THEN fromList(n2, st.r)
       ELSE [ret |-> null, buffer |-> st.r.buffer],
       LAMBDA got :
         IF got.ret = null
         THEN [st |-> [st EXCEPT !.r.needReadable =
                                    st.r.length <= st.r.highWaterMark],
               ret |-> null, n |-> 0]
         ELSE [st |-> [st EXCEPT !.r.length = @ - n2,
                                 !.r.buffer = got.buffer,
                                 !.r.awaitDrainWriters = {}],
               ret |-> got.ret, n |-> n2])

\* readDone without lines 450-452: needReadable is not set on an empty
\* buffer.
readDone_noWakeUp(st, nOrig, n3, ret) ==
  With(IF st.r.length = 0 /\ nOrig # n3 /\ st.r.ended
       THEN endDuplex(st) ELSE st,
       LAMBDA stD :
         IF ret # null /\ ~stD.r.errorEmitted /\ ~stD.r.closeEmitted
         THEN emitData(emitChunk([stD EXCEPT !.r.dataEmitted = TRUE,
                                             !.observed = @ \o Delivered(stD.r, ret)],
                                 ret),
                       stD.r.pipes, ret)
         ELSE IF ret # null
         THEN [stD EXCEPT !.observed = @ \o Delivered(stD.r, ret)]
         ELSE stD)

\* readDone ending the stream without the test of state.length (line 449).
readDone_endsWithData(st, nOrig, n3, ret) ==
  With(IF st.r.length = 0 /\ ~st.r.ended
       THEN [st EXCEPT !.r.needReadable = TRUE] ELSE st,
       LAMBDA stC :
  With(IF nOrig # n3 /\ stC.r.ended
       THEN endDuplex(stC) ELSE stC,
       LAMBDA stD :
         IF ret # null /\ ~stD.r.errorEmitted /\ ~stD.r.closeEmitted
         THEN emitData(emitChunk([stD EXCEPT !.r.dataEmitted = TRUE,
                                             !.observed = @ \o Delivered(stD.r, ret)],
                                 ret),
                       stD.r.pipes, ret)
         ELSE IF ret # null
         THEN [stD EXCEPT !.observed = @ \o Delivered(stD.r, ret)]
         ELSE stD))

\* readDone emitting "data" whatever was emitted before (line 459 without
\* the tests of errorEmitted and closeEmitted).
readDone_dataAlways(st, nOrig, n3, ret) ==
  With(IF st.r.length = 0 /\ ~st.r.ended
       THEN [st EXCEPT !.r.needReadable = TRUE] ELSE st,
       LAMBDA stC :
  With(IF stC.r.length = 0 /\ nOrig # n3 /\ stC.r.ended
       THEN endDuplex(stC) ELSE stC,
       LAMBDA stD :
         IF ret # null
         THEN emitData(emitChunk([stD EXCEPT !.r.dataEmitted = TRUE,
                                             !.observed = @ \o Delivered(stD.r, ret)],
                                 ret),
                       stD.r.pipes, ret)
         ELSE stD))

\* read(n), lines 449-464: the end of the data, the "data" notification.
readDone(st, nOrig, n3, ret) ==
  With(IF st.r.length = 0 /\ ~st.r.ended
       THEN [st EXCEPT !.r.needReadable = TRUE] ELSE st,
       LAMBDA stC :
  With(IF stC.r.length = 0 /\ nOrig # n3 /\ stC.r.ended
       THEN endDuplex(stC) ELSE stC,
       LAMBDA stD :
         IF ret # null /\ ~stD.r.errorEmitted /\ ~stD.r.closeEmitted
         THEN emitData(emitChunk([stD EXCEPT !.r.dataEmitted = TRUE,
                                             !.observed = @ \o Delivered(stD.r, ret)],
                                 ret),
                       stD.r.pipes, ret)
         ELSE IF ret # null
         THEN [stD EXCEPT !.observed = @ \o Delivered(stD.r, ret)]
         ELSE stD))

\* read(n), lines 400-464: after howMuchToRead has answered n1 and the stream
\* is not at its end.
readFrom(st, nOrig, n1, fill) ==
  With(readFill(st, nOrig, n1, fill), LAMBDA a :
  With(readTake(a.st, a.n), LAMBDA b :
    [st |-> readDone(b.st, nOrig, b.n, b.ret), ret |-> b.ret]))

\* read(n) (duplex.ts lines 356-465): the state it leaves and the value it
\* returns.
read(st0, n, fill) ==
  With([(IF n # 0 THEN settle(st0, "readable since read") ELSE st0) EXCEPT
          !.r.highWaterMark = IF n # NaN /\ n > @
                              THEN computeNewHighWaterMark(n) ELSE @,
          !.r.emittedReadable = IF n # 0 THEN FALSE ELSE @],
       LAMBDA st :
    IF /\ n = 0
       /\ st.r.needReadable
       /\ \/ (IF st.r.highWaterMark # 0
              THEN st.r.length >= st.r.highWaterMark
              ELSE st.r.length > 0)
          \/ st.r.ended
    THEN [st |-> IF st.r.length = 0 /\ st.r.ended THEN endDuplex(st)
                 ELSE emitReadable(st),
          ret |-> null]
    ELSE IF howMuchToRead(n, st.r) = 0 /\ st.r.ended
    THEN [st |-> IF st.r.length = 0 THEN endDuplex(st) ELSE st, ret |-> null]
    ELSE readFrom(st, n, howMuchToRead(n, st.r), fill))

\* onReadable leaving the mode as it is (line 327 left out).
onReadable_keepsMode(st0) ==
  With(st0, LAMBDA st :
    IF st.r.endEmitted \/ st.r.readableListening THEN st
    ELSE With(settle([st EXCEPT !.r.readableListening = TRUE,
                                !.r.needReadable = TRUE,
                                !.r.emittedReadable = FALSE],
                     "readable since read"),
              LAMBDA st1 :
                IF st1.r.length > 0 THEN emitReadable(st1)
                ELSE IF ~st1.r.reading
                     THEN queueMicrotask(st1, "nReadingNextTick", NoErr)
                ELSE st1))

\* on("readable", fn) (duplex.ts lines 324-335): the first listener puts the
\* stream out of the flowing mode and asks for a notification.
onReadable(st0) ==
  With(st0, LAMBDA st :
    IF st.r.endEmitted \/ st.r.readableListening THEN st
    ELSE With(settle([st EXCEPT !.r.readableListening = TRUE,
                                !.r.needReadable = TRUE,
                                !.r.flowing = "false",
                                !.r.emittedReadable = FALSE],
                     "readable since read"),
              LAMBDA st1 :
                IF st1.r.length > 0 THEN emitReadable(st1)
                ELSE IF ~st1.r.reading
                     THEN queueMicrotask(st1, "nReadingNextTick", NoErr)
                ELSE st1))

\* nReadingNextTick(self): read(0), deferred.
nReadingNextTick(st) == read(st, 0, [kind |-> "defer", chunk |-> null]).st

----------------------------------------------------------------------------
(* Flowing mode and pipe() *)

\* flow(stream): read() is called as long as the stream is flowing and
\* read() returns data.
flow(st0) ==
  With(st0, LAMBDA st :
    IF st.r.flowing # "true" THEN st
    ELSE With(read(st, NaN, [kind |-> "defer", chunk |-> null]), LAMBDA res :
           IF res.ret = null THEN res.st ELSE flow(res.st)))

\* resume() (duplex.ts lines 526-528)
resume(st0) ==
  With(st0, LAMBDA st :
    IF st.r.flowing = "true" THEN st
    ELSE With([st EXCEPT !.r.flowing =
                           IF st.r.readableListening THEN "false" ELSE "true"],
              LAMBDA st1 :
                IF st1.r.resumeScheduled THEN st1
                ELSE queueMicrotask([st1 EXCEPT !.r.resumeScheduled = TRUE],
                                    "resume_", NoErr)))

\* The deferred part of resume(): the flow starts.
resume_(st0) ==
  With(st0, LAMBDA st :
  With(IF ~st.r.reading
       THEN read(st, 0, [kind |-> "defer", chunk |-> null]).st ELSE st,
       LAMBDA st1 :
  With(flow(emit([st1 EXCEPT !.r.resumeScheduled = FALSE], "resume")),
       LAMBDA st2 :
         IF st2.r.flowing = "true" /\ ~st2.r.reading
         THEN read(st2, 0, [kind |-> "defer", chunk |-> null]).st
         ELSE st2)))

\* onData calling resume() whatever the mode (line 322 without its test).
onData_always(st0) == resume(st0)

\* on("data", fn) (duplex.ts lines 319-323)
onData(st0) ==
  With(st0, LAMBDA st :
    IF st.r.flowing # "false" THEN resume(st) ELSE st)

\* pipe(dest) (duplex.ts lines 344-348): the sink is attached, its "data"
\* listener is added, and the flow is started if it has not been.
pipe(st0, d) ==
  With(st0, LAMBDA st :
  With(onData([st EXCEPT !.r.multiAwaitDrain = IF Len(st.r.pipes) = 1
                                               THEN TRUE ELSE @,
                         !.r.pipes = Append(@, d),
                         !.dests[d].from = Len(st.observed)]),
       LAMBDA st1 :
         IF st1.r.flowing # "true" THEN resume(st1) ELSE st1))

\* pipeOnDrain starting the flow again at the drain of any one sink.
pipeOnDrain_anyDrain(st0, d) ==
  With([st0 EXCEPT !.r.awaitDrainWriters = @ \ {d}], LAMBDA st :
    IF st.r.pipes # <<>>
    THEN flow([st EXCEPT !.r.flowing = "true"])
    ELSE st)

\* The "drain" listener of the pipe to sink d: the drain of d is no longer
\* awaited, and the flow starts again once no drain is awaited.
pipeOnDrain(st0, d) ==
  With([st0 EXCEPT !.r.awaitDrainWriters = @ \ {d}], LAMBDA st :
    IF st.r.awaitDrainWriters = {} /\ st.r.pipes # <<>>
    THEN flow([st EXCEPT !.r.flowing = "true"])
    ELSE st)

\* Sink d has flushed one of the chunks it holds; it emits "drain" when it
\* holds none after having answered false.
destDone(st0, d) ==
  With([st0 EXCEPT !.dests[d].pending = @ - 1], LAMBDA st :
    IF st.dests[d].pending = 0 /\ st.dests[d].needDrain
    THEN pipeOnDrain([st EXCEPT !.dests[d].needDrain = FALSE], d)
    ELSE st)

----------------------------------------------------------------------------
(* The write side *)

RECURSIVE SumLen(_)
SumLen(ws) == IF ws = <<>> THEN 0 ELSE Head(ws).len + SumLen(Tail(ws))

Ids(ws) == [i \in 1..Len(ws) |-> ws[i].id]

\* The write side can finish: end() was called, nothing is buffered or in
\* flight, and the stream is neither errored nor destroyed.
needFinish(s) ==
  /\ s.ending
  /\ ~s.destroyed
  /\ s.length = 0
  /\ s.errored = NoErr
  /\ s.buffered = <<>>
  /\ ~s.finished
  /\ ~s.writing

\* The microtask of prefinish: the sink's _final(callback) is entered.
callFinal(st) == [st EXCEPT !.sink.final = "running"]

prefinish(st0) ==
  With(st0, LAMBDA st :
    IF ~st.w.prefinished /\ ~st.w.finalCalled
    THEN IF opts.final
         THEN queueMicrotask([st EXCEPT !.w.pendingcb = @ + 1,
                                        !.w.finalCalled = TRUE],
                             "callFinal", NoErr)
         ELSE emit([st EXCEPT !.w.prefinished = TRUE], "prefinish")
    ELSE st)

\* A notification made n times: one call for each callback of a list.
RECURSIVE emitTimes(_, _, _)
emitTimes(st, name, n) ==
  IF n = 0 THEN st ELSE emitTimes(emit(st, name), name, n - 1)

\* finish(stream, state): the write side becomes finished, the callbacks end()
\* registered are called, "finish" is emitted.
finish(st0) ==
  With([st0 EXCEPT !.w.pendingcb = @ - 1], LAMBDA st :
    IF st.w.errored # NoErr \/ st.w.destroyed THEN st
    ELSE With(emit([st EXCEPT !.w.finished = TRUE, !.w.onFinished = 0],
                   "finish"),
              LAMBDA st1 : emitTimes(st1, "endCb", st.w.onFinished)))

finishMaybe(st0, sync) ==
  With(st0, LAMBDA st :
    IF needFinish(st.w)
    THEN With(prefinish(st), LAMBDA st1 :
           IF st1.w.pendingcb = 0 /\ needFinish(st1.w)
           THEN IF sync
                THEN queueMicrotask([st1 EXCEPT !.w.pendingcb = @ + 1],
                                    "finish", NoErr)
                ELSE finish([st1 EXCEPT !.w.pendingcb = @ + 1])
           ELSE st1)
    ELSE st)

\* doWrite: the writes ws are handed to the sink's _write (one) or _writev.
doWrite(st, ws) ==
  [st EXCEPT !.w.writelen = SumLen(ws),
             !.w.writing = TRUE,
             !.sink.inflight = Ids(ws)]

\* clearBuffer flushing the write buffered last before the ones submitted
\* earlier.
clearBuffer_lastFirst(st0) ==
  With(st0, LAMBDA st :
    IF st.w.corked > 0 \/ st.w.destroyed \/ st.w.buffered = <<>> THEN st
    ELSE doWrite([st EXCEPT !.w.buffered = SubSeq(@, 1, Len(@) - 1)],
                 <<st.w.buffered[Len(st.w.buffered)]>>))

\* clearBuffer: flush what was buffered, in one batch when the sink has a
\* _writev and more than one write waits, one write at a time otherwise.
clearBuffer(st0) ==
  With(st0, LAMBDA st :
    IF st.w.corked > 0 \/ st.w.destroyed \/ st.w.buffered = <<>> THEN st
    ELSE IF opts.writev /\ Len(st.w.buffered) > 1
         THEN doWrite([st EXCEPT !.w.buffered = <<>>], st.w.buffered)
    ELSE doWrite([st EXCEPT !.w.buffered = Tail(@)], <<Head(st.w.buffered)>>))

writeOrBuffer(st0, chunk) ==
  With(st0, LAMBDA st :
  With([id |-> Len(st.accepted) + 1,
        len |-> IF st.w.objectMode THEN 1 ELSE Len(chunk)], LAMBDA wr :
  With([st EXCEPT !.w.length = @ + wr.len,
                  !.w.needDrain = IF st.w.length + wr.len < st.w.highWaterMark
                                  THEN @ ELSE TRUE,
                  !.accepted = Append(@, wr.id)], LAMBDA st1 :
    IF st1.w.writing \/ st1.w.corked > 0 \/ st1.w.errored # NoErr
    THEN [st1 EXCEPT !.w.buffered = Append(@, wr)]
    ELSE doWrite(st1, <<wr>>))))

\* What write() reports to its caller: a write after end() or on a destroyed
\* stream is refused and changes nothing.
writeError(s) ==
  IF s.ending THEN "ERR_STREAM_WRITE_AFTER_END"
  ELSE IF s.destroyed THEN "ERR_STREAM_DESTROYED"
  ELSE NoErr

\* write(chunk, cb) (duplex.ts lines 604-612, Writable.prototype.write)
write(st0, chunk) ==
  With(st0, LAMBDA st :
    IF writeError(st.w) # NoErr THEN st
    ELSE writeOrBuffer([st EXCEPT !.w.pendingcb = @ + 1], chunk))

\* cork() (duplex.ts lines 614-616)
cork(st) == [st EXCEPT !.w.corked = @ + 1]

\* uncork() (duplex.ts lines 618-620)
uncork(st0) ==
  With(st0, LAMBDA st :
    IF st.w.corked > 0
    THEN IF ~st.w.writing THEN clearBuffer([st EXCEPT !.w.corked = @ - 1])
         ELSE [st EXCEPT !.w.corked = @ - 1]
    ELSE st)

\* afterWrite emitting "drain" whenever the buffer has emptied, whether a
\* write() returned false or not.
afterWrite_drainAlways(st0, ids) ==
  With(st0, LAMBDA st :
    With(IF ~st.w.ending /\ ~st.w.destroyed /\ st.w.length = 0
         THEN emit([st EXCEPT !.w.needDrain = FALSE], "drain")
         ELSE st,
         LAMBDA st1 :
           finishMaybe([st1 EXCEPT !.w.pendingcb = @ - Len(ids),
                                   !.completed = @ \o ids],
                       FALSE)))

\* afterWrite: the completion callbacks of the writes just flushed fire in
\* submission order, "drain" is emitted once the buffer has emptied after a
\* write() returned false.
afterWrite(st0, ids) ==
  With(st0, LAMBDA st :
    With(IF ~st.w.ending /\ ~st.w.destroyed /\ st.w.length = 0
              /\ st.w.needDrain
         THEN emit([st EXCEPT !.w.needDrain = FALSE], "drain")
         ELSE st,
         LAMBDA st1 :
           finishMaybe([st1 EXCEPT !.w.pendingcb = @ - Len(ids),
                                   !.completed = @ \o ids],
                       FALSE)))

\* onwrite(stream, er): the callback the sink calls when a flush is done.
onwrite(st0, er) ==
  With(st0, LAMBDA st :
  With([st EXCEPT !.w.writing = FALSE,
                  !.w.length = @ - st.w.writelen,
                  !.w.writelen = 0,
                  !.sink.inflight = <<>>], LAMBDA st1 :
    IF er # NoErr
    THEN errorOrDestroy([st1 EXCEPT !.w.pendingcb = @ - Len(st.sink.inflight),
                                    !.completed = @ \o st.sink.inflight],
                        er, FALSE)
    ELSE afterWrite(clearBuffer(st1), st.sink.inflight)))

\* The callback handed to the sink's _final.
onFinal(st0, er) ==
  With([st0 EXCEPT !.w.pendingcb = @ - 1, !.sink.final = "done"], LAMBDA st :
    IF er # NoErr THEN errorOrDestroy(st, er, FALSE)
    ELSE finishMaybe(emit([st EXCEPT !.w.prefinished = TRUE], "prefinish"),
                     FALSE))

\* endEnter reporting "already finished" as soon as end() was called, finished
\* or not (line 681 testing state.ending).
endEnter_reportsWhenEnding(st0, chunk) ==
  With(IF chunk # null THEN write(st0, chunk) ELSE st0, LAMBDA st1 :
  With(IF st1.w.corked > 0 THEN uncork([st1 EXCEPT !.w.corked = 1]) ELSE st1,
       LAMBDA st2 :
    IF st2.w.errored = NoErr /\ ~st2.w.ending
    THEN [st |-> finishMaybe([st2 EXCEPT !.w.ending = TRUE], TRUE),
          branch |-> "ending", err |-> NoErr]
    ELSE [st |-> st2, branch |-> "reporting",
          err |-> IF st2.w.ending THEN "ERR_STREAM_ALREADY_FINISHED"
                  ELSE IF st2.w.destroyed THEN "ERR_STREAM_DESTROYED"
                  ELSE NoErr]))

\* endEnter marking the write side finished at once instead of calling
\* finishMaybe (line 679).
endEnter_finishesAtOnce(st0, chunk) ==
  With(IF chunk # null THEN write(st0, chunk) ELSE st0, LAMBDA st1 :
  With(IF st1.w.corked > 0 THEN uncork([st1 EXCEPT !.w.corked = 1]) ELSE st1,
       LAMBDA st2 :
    IF st2.w.errored = NoErr /\ ~st2.w.ending
    THEN [st |-> [st2 EXCEPT !.w.ending = TRUE, !.w.finished = TRUE],
          branch |-> "ending", err |-> NoErr]
    ELSE [st |-> st2, branch |-> "reporting",
          err |-> IF st2.w.finished THEN "ERR_STREAM_ALREADY_FINISHED"
                  ELSE IF st2.w.destroyed THEN "ERR_STREAM_DESTROYED"
                  ELSE NoErr]))

\* endEnter marking the read side ended together with the write side.
endEnter_endsReadSide(st0, chunk) ==
  With(IF chunk # null THEN write(st0, chunk) ELSE st0, LAMBDA st1 :
  With(IF st1.w.corked > 0 THEN uncork([st1 EXCEPT !.w.corked = 1]) ELSE st1,
       LAMBDA st2 :
    IF st2.w.errored = NoErr /\ ~st2.w.ending
    THEN [st |-> finishMaybe([st2 EXCEPT !.w.ending = TRUE,
                                         !.r.ended = TRUE], TRUE),
          branch |-> "ending", err |-> NoErr]
    ELSE [st |-> st2, branch |-> "reporting",
          err |-> IF st2.w.finished THEN "ERR_STREAM_ALREADY_FINISHED"
                  ELSE IF st2.w.destroyed THEN "ERR_STREAM_DESTROYED"
                  ELSE NoErr]))

\* endEnter calling uncork() once, without setting the cork counter to 1
\* first (line 671 left out).
endEnter_uncorksOnce(st0, chunk) ==
  With(IF chunk # null THEN write(st0, chunk) ELSE st0, LAMBDA st1 :
  With(IF st1.w.corked > 0 THEN uncork(st1) ELSE st1,
       LAMBDA st2 :
    IF st2.w.errored = NoErr /\ ~st2.w.ending
    THEN [st |-> finishMaybe([st2 EXCEPT !.w.ending = TRUE], TRUE),
          branch |-> "ending", err |-> NoErr]
    ELSE [st |-> st2, branch |-> "reporting",
          err |-> IF st2.w.finished THEN "ERR_STREAM_ALREADY_FINISHED"
                  ELSE IF st2.w.destroyed THEN "ERR_STREAM_DESTROYED"
                  ELSE NoErr]))

\* end(chunk, cb), lines 666-679 and 681-685: the optional last write, the
\* uncorking, and then either the marking of the end and finishMaybe, or the
\* error to report (the err local).
endEnter(st0, chunk) ==
  With(IF chunk # null THEN write(st0, chunk) ELSE st0, LAMBDA st1 :
  With(IF st1.w.corked > 0 THEN uncork([st1 EXCEPT !.w.corked = 1]) ELSE st1,
       LAMBDA st2 :
    IF st2.w.errored = NoErr /\ ~st2.w.ending
    THEN [st |-> finishMaybe([st2 EXCEPT !.w.ending = TRUE], TRUE),
          branch |-> "ending", err |-> NoErr]
    ELSE [st |-> st2, branch |-> "reporting",
          err |-> IF st2.w.finished THEN "ERR_STREAM_ALREADY_FINISHED"
                  ELSE IF st2.w.destroyed THEN "ERR_STREAM_DESTROYED"
                  ELSE NoErr]))

\* endMark without line 680.
endMark_notEnded(st, branch) == st

\* end(chunk, cb), line 680: state.ended = true after finishMaybe.
endMark(st, branch) ==
  IF branch = "ending" THEN [st EXCEPT !.w.ended = TRUE] ELSE st

\* end(chunk, cb), lines 687-695: what becomes of the callback.
endCallback(s, cb, err) ==
  IF ~cb THEN "none"
  ELSE IF err # NoErr \/ s.finished THEN "deferred"
  ELSE "registered"

\* endReturn calling the callback inside end() where line 689 defers it.
endReturn_callsNow(st0, branch, cb, err) ==
  With(endMark(st0, branch), LAMBDA st :
  With(endCallback(st.w, cb, err), LAMBDA disp :
    IF disp = "deferred" THEN emit(st, "endCb")
    ELSE IF disp = "registered" THEN [st EXCEPT !.w.onFinished = @ + 1]
    ELSE st))

\* end(chunk, cb), lines 680-697.
endReturn(st0, branch, cb, err) ==
  With(endMark(st0, branch), LAMBDA st :
  With(endCallback(st.w, cb, err), LAMBDA disp :
    IF disp = "deferred" THEN queueMicrotask(st, "endCb", err)
    ELSE IF disp = "registered" THEN [st EXCEPT !.w.onFinished = @ + 1]
    ELSE st))

\* end() called by the stream itself, with no chunk and no callback.
endWritableNT(st0) ==
  With(endEnter(st0, null), LAMBDA res :
    endReturn(res.st, res.branch, FALSE, res.err))

\* endReadableNT without the automatic end() of the write side.
endReadableNT_halfOpenAlways(st0) ==
  With(st0, LAMBDA st :
    IF ~st.r.errorEmitted /\ ~st.r.closeEmitted /\ ~st.r.endEmitted
         /\ st.r.length = 0
    THEN emit([st EXCEPT !.r.endEmitted = TRUE], "end")
    ELSE st)

\* The microtask of endDuplex: the "end" notification, and with
\* allowHalfOpen false the automatic end() of the write side.
endReadableNT(st0) ==
  With(st0, LAMBDA st :
    IF ~st.r.errorEmitted /\ ~st.r.closeEmitted /\ ~st.r.endEmitted
         /\ st.r.length = 0
    THEN With(emit([st EXCEPT !.r.endEmitted = TRUE], "end"), LAMBDA st1 :
           IF opts.allowHalfOpen THEN st1 ELSE endWritableNT(st1))
    ELSE st)

----------------------------------------------------------------------------
(* Construction (duplex.ts lines 89-180) *)

ReadableState(o) ==
  [buffer |-> <<>>, length |-> 0, highWaterMark |-> o.readableHighWaterMark,
   objectMode |-> o.readableObjectMode, flowing |-> "null",
   ended |-> FALSE, endEmitted |-> FALSE, reading |-> FALSE, sync |-> TRUE,
   needReadable |-> FALSE, emittedReadable |-> FALSE,
   readableListening |-> FALSE, dataEmitted |-> FALSE, constructed |-> TRUE,
   readable |-> TRUE, destroyed |-> FALSE, errored |-> NoErr,
   errorEmitted |-> FALSE, closed |-> FALSE, closeEmitted |-> FALSE,
   emitClose |-> o.emitClose, autoDestroy |-> o.autoDestroy,
   pipes |-> <<>>, awaitDrainWriters |-> {}, multiAwaitDrain |-> FALSE,
   resumeScheduled |-> FALSE]

WritableState(o) ==
  [buffered |-> <<>>, length |-> 0, highWaterMark |-> o.writableHighWaterMark,
   objectMode |-> o.writableObjectMode, corked |-> 0, writing |-> FALSE,
   writelen |-> 0, ending |-> FALSE, ended |-> FALSE, finished |-> FALSE,
   needDrain |-> FALSE, pendingcb |-> 0, prefinished |-> FALSE,
   finalCalled |-> FALSE, onFinished |-> 0, writable |-> TRUE,
   destroyed |-> FALSE, errored |-> NoErr, errorEmitted |-> FALSE,
   closed |-> FALSE, emitClose |-> o.emitClose, autoDestroy |-> o.autoDestroy]

\* constructReadable without line 163, this._readableState.ended = true.
constructReadable_notEnded(s, o) ==
  IF o.readable THEN s
  ELSE [s EXCEPT !.readable = FALSE, !.endEmitted = TRUE]

\* lines 160-165: options.readable === false
constructReadable(s, o) ==
  IF o.readable THEN s
  ELSE [s EXCEPT !.readable = FALSE, !.ended = TRUE, !.endEmitted = TRUE]

\* lines 166-172: options.writable === false
constructWritable(s, o) ==
  IF o.writable THEN s
  ELSE [s EXCEPT !.writable = FALSE, !.ending = TRUE, !.ended = TRUE,
                 !.finished = TRUE]

DefaultOptions ==
  [allowHalfOpen |-> TRUE, autoDestroy |-> TRUE, destroy |-> FALSE,
   emitClose |-> TRUE, final |-> FALSE, writev |-> FALSE,
   readable |-> TRUE, writable |-> TRUE,
   readableHighWaterMark |-> 2, writableHighWaterMark |-> 2,
   readableObjectMode |-> FALSE, writableObjectMode |-> FALSE]

\* new Duplex(o): the state after the constructor.
newDuplex(o, counted) ==
  /\ r = constructReadable(ReadableState(o), o)
  /\ w = constructWritable(WritableState(o), o)
  /\ opts = [allowHalfOpen |-> o.allowHalfOpen, destroy |-> o.destroy,
             final |-> o.final, writev |-> o.writev]
  /\ microtasks = <<>>
  /\ events = [name \in counted |->
                 IF name \in {"log", "last data"} THEN <<>> ELSE 0]
  /\ teardown = [state |-> "none", err |-> NoErr, cb |-> FALSE]
  /\ inDestroy = FALSE
  /\ endpc = "idle"
  /\ endErr = NoErr
  /\ endCb = "none"
  /\ writeErr = NoErr
  /\ sink = [inflight |-> <<>>, final |-> "none"]
  /\ completed = <<>>
  /\ accepted = <<>>
  /\ pushed = <<>>
  /\ observed = <<>>
  /\ dests = [d \in Dests |-> [pending |-> 0, needDrain |-> FALSE,
                             delivered |-> <<>>, from |-> 0]]
  /\ readRet = null
  /\ pushRet = TRUE

\* A behaviour of the stream: a Duplex is constructed, joinToString is not
\* called.
constructor(o, counted) ==
  /\ newDuplex(o, counted)
  /\ join = NoCall

----------------------------------------------------------------------------
(* The steps of a behaviour *)

\* An operation called by the producer, the consumer or a hook has run on the
\* World and left st. Control enters a user _destroy hook when the operation
\* called destroy() for the first time.
Step(st) ==
  /\ Commit(st)
  /\ Len(st.pushed) <= MaxPush
  /\ Len(st.accepted) <= MaxWrite
  /\ st.w.onFinished <= MaxOnFinished
  /\ inDestroy' = (inDestroy \/ (teardown.state = "none" /\ st.td.state = "running"))
  /\ opts' = opts

Push(chunk) ==
  /\ endpc = "idle"
  /\ \E st \in {push(World, chunk)} :
        /\ Step(st)
        /\ pushRet' = pushResult(World, st)
  /\ UNCHANGED <<endpc, endErr, endCb, writeErr, readRet>>

Read(n, fill) ==
  /\ endpc = "idle"
  /\ \E res \in {read(World, n, fill)} :
        /\ Step(emit(res.st, IF n = 0 THEN "read(0)" ELSE "read(n)"))
        /\ readRet' = res.ret
  /\ UNCHANGED <<endpc, endErr, endCb, writeErr, pushRet>>

Destroy(err, cb) ==
  /\ endpc = "idle"
  /\ \E st \in {destroy(World, err, cb)} : Step(st)
  /\ UNCHANGED <<endpc, endErr, endCb, writeErr, readRet, pushRet>>

\* A user _destroy hook calls the callback it was given, inside destroy() or
\* later, with an error or without.
DestroyHookCallback(err) ==
  /\ endpc = "idle"
  /\ teardown.state = "running"
  /\ \E st \in {destroyCallback(World, err)} : Step(st)
  /\ UNCHANGED <<endpc, endErr, endCb, writeErr, readRet, pushRet>>

\* The user _destroy hook returns, and destroy() returns.
DestroyReturn ==
  /\ endpc = "idle"
  /\ inDestroy
  /\ inDestroy' = FALSE
  /\ UNCHANGED <<r, w, opts, microtasks, events, teardown, endpc, endErr, endCb,
                 writeErr, sink, completed, accepted, pushed, observed, dests,
                 join,
                 readRet, pushRet>>

\* on("readable", fn)
OnReadable ==
  /\ endpc = "idle"
  /\ \E st \in {onReadable(World)} : Step(st)
  /\ UNCHANGED <<endpc, endErr, endCb, writeErr, readRet, pushRet>>

\* on("data", fn)
OnData ==
  /\ endpc = "idle"
  /\ \E st \in {emit(onData(World), "on(data)")} : Step(st)
  /\ UNCHANGED <<endpc, endErr, endCb, writeErr, readRet, pushRet>>

\* pause()
Pause ==
  /\ endpc = "idle"
  /\ \E st \in {pause(World)} : Step(st)
  /\ UNCHANGED <<endpc, endErr, endCb, writeErr, readRet, pushRet>>

\* resume()
Resume ==
  /\ endpc = "idle"
  /\ \E st \in {resume(World)} : Step(st)
  /\ UNCHANGED <<endpc, endErr, endCb, writeErr, readRet, pushRet>>

\* pipe(dest) to a sink not yet attached, while no drain is awaited.
Pipe(d) ==
  /\ endpc = "idle"
  /\ \A i \in 1..Len(r.pipes) : r.pipes[i] # d
  /\ r.awaitDrainWriters = {}
  /\ \E st \in {pipe(World, d)} : Step(st)
  /\ UNCHANGED <<endpc, endErr, endCb, writeErr, readRet, pushRet>>

\* Sink d calls back for one of the chunks it holds.
DestDone(d) ==
  /\ endpc = "idle"
  /\ dests[d].pending > 0
  /\ \E st \in {destDone(World, d)} : Step(st)
  /\ UNCHANGED <<endpc, endErr, endCb, writeErr, readRet, pushRet>>

Write(chunk) ==
  /\ endpc = "idle"
  /\ \E st \in {write(World, chunk)} : Step(st)
  /\ writeErr' = writeError(w)
  /\ UNCHANGED <<endpc, endErr, endCb, readRet, pushRet>>

Cork ==
  /\ endpc = "idle"
  /\ w.corked < MaxCork
  /\ \E st \in {emit(cork(World), "cork()")} : Step(st)
  /\ UNCHANGED <<endpc, endErr, endCb, writeErr, readRet, pushRet>>

Uncork ==
  /\ endpc = "idle"
  /\ w.corked > 0
  /\ \E st \in {emit(uncork(World), "uncork()")} : Step(st)
  /\ UNCHANGED <<endpc, endErr, endCb, writeErr, readRet, pushRet>>

\* end(chunk, cb) up to the return of finishMaybe (line 679) or to the choice
\* of the error (line 685).
End(chunk, cb) ==
  /\ endpc = "idle"
  /\ \E res \in {endEnter(World, chunk)} :
        /\ Step(emit(IF cb THEN emit(res.st, "end(cb)") ELSE res.st, "end()"))
        /\ endpc' = res.branch
        /\ endErr' = res.err
  /\ endCb' = IF cb THEN "pending" ELSE "none"
  /\ writeErr' = IF chunk # null THEN writeError(w) ELSE writeErr
  /\ UNCHANGED <<readRet, pushRet>>

\* end(chunk, cb) from line 680 to its return.
EndReturn ==
  /\ endpc # "idle"
  /\ \E st \in {endReturn(World, endpc, endCb = "pending", endErr)} :
        Step(st)
  /\ endCb' = endCallback(endMark(World, endpc).w, endCb = "pending", endErr)
  /\ endpc' = "idle"
  /\ UNCHANGED <<endErr, writeErr, readRet, pushRet>>

\* The sink calls the callback of the flush in flight.
SinkDone(er) ==
  /\ endpc = "idle"
  /\ sink.inflight # <<>>
  /\ \E st \in {onwrite(World, er)} : Step(st)
  /\ UNCHANGED <<endpc, endErr, endCb, writeErr, readRet, pushRet>>

\* The sink's _final calls its callback.
FinalDone(er) ==
  /\ endpc = "idle"
  /\ sink.final = "running"
  /\ \E st \in {onFinal(World, er)} : Step(st)
  /\ UNCHANGED <<endpc, endErr, endCb, writeErr, readRet, pushRet>>

\* What a queued microtask does when it runs.
runTask(st, t) ==
  IF t.kind = "destroyNT" THEN destroyNT(st, t.err)
  ELSE IF t.kind = "emitErrorNT" THEN emitErrorNT(st, t.err)
  ELSE IF t.kind = "emitReadable_" THEN emitReadable_(st)
  ELSE IF t.kind = "resume_" THEN resume_(st)
  ELSE IF t.kind = "nReadingNextTick" THEN nReadingNextTick(st)
  ELSE IF t.kind = "endReadableNT" THEN endReadableNT(st)
  ELSE IF t.kind = "callFinal" THEN callFinal(st)
  ELSE IF t.kind = "finish" THEN finish(st)
  ELSE emit(st, "endCb")

\* The first microtask runs: only when no operation of the stream is on the
\* call stack.
RunMicrotask ==
  /\ endpc = "idle"
  /\ ~inDestroy
  /\ microtasks # <<>>
  /\ \E st \in {runTask([World EXCEPT !.q = Tail(@)], Head(microtasks))} :
        Step(st)
  /\ UNCHANGED <<endpc, endErr, endCb, writeErr, readRet, pushRet>>

----------------------------------------------------------------------------
(* The read side alone: a producer pushing, a consumer reading *)

ReadOptions ==
  {[DefaultOptions EXCEPT !.readableObjectMode = om,
                          !.readableHighWaterMark = h,
                          !.readable = rd,
                          !.autoDestroy = FALSE] :
     om \in BOOLEAN, h \in HighWaterMarks, rd \in BOOLEAN}

InitRead == \E o \in ReadOptions : constructor(o, {"end"})

NextRead ==
  \/ \E c \in Chunks \cup {null} : Push(c)
  \/ \E n \in ReadSizes, f \in Fills : Read(n, f)
  \/ RunMicrotask

SpecRead == InitRead /\ [][NextRead]_vars

----------------------------------------------------------------------------
(* The producer's fill function: _read may push, defer, or call read() *)

InitFill == \E o \in ReadOptions : constructor(o, {"fill"})

NextFill ==
  \/ \E c \in Chunks \cup {null} : Push(c)
  \/ \E n \in ReadSizes, f \in Fills \cup ReentrantFills : Read(n, f)
  \/ RunMicrotask

SpecFill == InitFill /\ [][NextFill]_vars

----------------------------------------------------------------------------
(* Both sides at once: the producer pushes and ends the data, the consumer *)
(* reads, a writer writes and ends, the sink completes its flushes         *)

HalfOpenOptions ==
  {[DefaultOptions EXCEPT !.allowHalfOpen = h, !.final = f,
                          !.autoDestroy = FALSE] :
     h \in BOOLEAN, f \in BOOLEAN}

InitHalfOpen == \E o \in HalfOpenOptions : constructor(o, {"end", "end()"})

NextHalfOpen ==
  \/ \E c \in {<<"a">>, null} : Push(c)
  \/ \E n \in {NaN, 0} : Read(n, [kind |-> "defer", chunk |-> null])
  \/ Write(<<"a">>)
  \/ \E c \in {<<"a">>, null} : End(c, FALSE)
  \/ EndReturn
  \/ SinkDone(NoErr)
  \/ FinalDone(NoErr)
  \/ RunMicrotask

SpecHalfOpen == InitHalfOpen /\ [][NextHalfOpen]_vars

----------------------------------------------------------------------------
(* Teardown: destroy(), the _destroy hook, and the failures of the producer *)
(* (a push after the end of the data) and of the sink (a failed flush)      *)

DestroyOptions ==
  {[DefaultOptions EXCEPT !.autoDestroy = ad, !.destroy = d, !.emitClose = ec] :
     ad \in BOOLEAN, d \in BOOLEAN, ec \in BOOLEAN}

InitDestroy ==
  \E o \in DestroyOptions : constructor(o, {"error", "close", "destroy()", "_destroy"})

NextDestroy ==
  \/ \E e \in Errs \cup {NoErr} : Destroy(e, FALSE)
  \/ \E e \in Errs \cup {NoErr} : DestroyHookCallback(e)
  \/ DestroyReturn
  \/ \E c \in {null, <<"a">>} : Push(c)
  \/ Write(<<"a">>)
  \/ \E e \in {"E1", NoErr} : SinkDone(e)
  \/ RunMicrotask

SpecDestroy == InitDestroy /\ [][NextDestroy]_vars

----------------------------------------------------------------------------
(* The end of the write side: write(), cork(), end(), the sink's flushes    *)
(* and _final, and destroy()                                                *)

EndOptions ==
  {[DefaultOptions EXCEPT !.final = f, !.writable = wr] :
     f \in BOOLEAN, wr \in BOOLEAN}

InitEnd == \E o \in EndOptions : constructor(o, {"end()"})

NextEnd ==
  \/ \E c \in Chunks : Write(c)
  \/ Cork
  \/ Uncork
  \/ \E c \in Chunks \cup {null}, cb \in BOOLEAN : End(c, cb)
  \/ EndReturn
  \/ \E e \in {"E1", NoErr} : SinkDone(e)
  \/ \E e \in {"E1", NoErr} : FinalDone(e)
  \/ \E e \in {"E1", NoErr} : Destroy(e, FALSE)
  \/ RunMicrotask

SpecEnd == InitEnd /\ [][NextEnd]_vars

----------------------------------------------------------------------------
(* joinToString called once on an array of up to MaxLen elements            *)

InitJoin ==
  /\ newDuplex(DefaultOptions, {})
  /\ \E a \in Arrays, sel \in Selectors, d \in Delimiters :
        join = [called |-> FALSE, array |-> a, selector |-> sel,
                delimiter |-> d]

JoinToString ==
  /\ ~join.called
  /\ join' = [called |-> TRUE, array |-> join.array,
              selector |-> join.selector, delimiter |-> join.delimiter,
              before |-> join.array,
              ret |-> joinToString(join.array, join.selector,
                                   join.delimiter)]
  /\ UNCHANGED <<r, w, opts, microtasks, events, teardown, inDestroy, endpc,
                 endErr, endCb, writeErr, sink, completed, accepted, pushed,
                 observed, dests, readRet, pushRet>>

NextJoin == JoinToString

SpecJoin == InitJoin /\ [][NextJoin]_vars

----------------------------------------------------------------------------
(* destroy(err, cb): the callback, the teardown hook and the notifications  *)

CallbackOptions ==
  {[DefaultOptions EXCEPT !.destroy = d, !.emitClose = ec] :
     d \in BOOLEAN, ec \in BOOLEAN}

InitCallback ==
  \E o \in CallbackOptions :
     constructor(o, {"error", "close", "_destroy", "destroyCb()",
                     "destroyCb(err)", "log"})

NextCallback ==
  \/ \E e \in {"E1", NoErr}, cb \in BOOLEAN : Destroy(e, cb)
  \/ \E e \in {"E2", NoErr} : DestroyHookCallback(e)
  \/ DestroyReturn
  \/ RunMicrotask

SpecCallback == InitCallback /\ [][NextCallback]_vars

----------------------------------------------------------------------------
(* Calls made on a stream before and after destroy()                        *)

InitTornDown == constructor(DefaultOptions, {})

NextTornDown ==
  \/ Push(<<"a">>)
  \/ \E n \in {NaN, 3} : Read(n, [kind |-> "defer", chunk |-> null])
  \/ Write(<<"a">>)
  \/ Cork
  \/ Uncork
  \/ \E c \in {<<"a">>, null} : End(c, FALSE)
  \/ EndReturn
  \/ \E e \in {"E1", NoErr} : Destroy(e, FALSE)
  \/ RunMicrotask

SpecTornDown == InitTornDown /\ [][NextTornDown]_vars

----------------------------------------------------------------------------
(* The "readable" notification: a listener, pushes by the producer outside  *)
(* _read, and read() calls of the consumer                                  *)

ReadableOptions ==
  {[DefaultOptions EXCEPT !.readableObjectMode = om,
                          !.readableHighWaterMark = h,
                          !.autoDestroy = FALSE] :
     om \in BOOLEAN, h \in HighWaterMarks}

InitReadable ==
  \E o \in ReadableOptions : constructor(o, {"readable since read"})

NextReadable ==
  \/ OnReadable
  \/ \E c \in Chunks : Push(c)
  \/ \E n \in {NaN, 0, 1} : Read(n, [kind |-> "defer", chunk |-> null])
  \/ RunMicrotask

SpecReadable == InitReadable /\ [][NextReadable]_vars

----------------------------------------------------------------------------
(* pipe(): one source, up to two sinks, chunks pushed by the producer       *)

PipeOptions ==
  {[DefaultOptions EXCEPT !.readableHighWaterMark = h,
                          !.readableObjectMode = om] :
     h \in HighWaterMarks, om \in BOOLEAN}

InitPipe == \E o \in PipeOptions : constructor(o, {"pause"})

NextPipe ==
  \/ \E d \in Dests : Pipe(d)
  \/ \E c \in Chunks : Push(c)
  \/ \E d \in Dests : DestDone(d)
  \/ RunMicrotask

SpecPipe == InitPipe /\ [][NextPipe]_vars

----------------------------------------------------------------------------
(* The write side under load: write(), cork()/uncork(), the sink's flushes  *)
(* one by one or in batches, "drain", and end()                             *)

WriteOptions ==
  {[DefaultOptions EXCEPT !.writev = wv, !.writableHighWaterMark = h] :
     wv \in BOOLEAN, h \in {1, 2}}

InitWrite == \E o \in WriteOptions : constructor(o, {"drain"})

NextWrite ==
  \/ \E c \in Chunks : Write(c)
  \/ Cork
  \/ Uncork
  \/ End(null, FALSE)
  \/ EndReturn
  \/ \E e \in {"E1", NoErr} : SinkDone(e)
  \/ RunMicrotask

SpecWrite == InitWrite /\ [][NextWrite]_vars

----------------------------------------------------------------------------
(* Claims *)

\* What the producer pushed and what the buffer holds, as the consumer is to
\* see it: bytes, or objects in object mode.
Produced == IF r.objectMode THEN pushed ELSE Flatten(pushed)
Buffered == IF r.objectMode THEN r.buffer ELSE Flatten(r.buffer)

\* A read(n) with n # 0 on a stream whose data has ended returns null.
NullReadAtEnd ==
  /\ r.ended
  /\ readRet' = null
  /\ \E n \in ReadSizes \ {0}, f \in Fills : Read(n, f)

\* C1: what the consumer has read so far, followed by what is still buffered,
\* is what was pushed, in push order; "end" is emitted at most once, and only
\* when the data has ended and all of it was read; a read(n), n # 0, returns
\* null after the end of the data only when everything pushed was delivered,
\* and the "end" notification is then emitted or queued.
C1_PushedIsReadInOrder ==
  /\ [](observed \o Buffered = Produced)
  /\ [](events["end"] <= 1)
  /\ [](events["end"] = 1 => r.ended /\ observed = Produced)
  /\ [][NullReadAtEnd =>
          /\ observed' = Produced'
          /\ \/ r'.endEmitted
             \/ \E i \in 1..Len(microtasks') :
                   microtasks'[i].kind = "endReadableNT"]_vars

\* a, then b c, then the end were pushed; the consumer read a, b c and null,
\* and "end" was emitted.
C1_Witness ==
  /\ pushed = <<<<"a">>, <<"b", "c">>>>
  /\ r.ended
  /\ observed = Produced
  /\ readRet = null
  /\ events["end"] = 1

\* The deferred notifications of a completed teardown are still queued.
DestroyNTQueued ==
  \E i \in 1..Len(microtasks) : microtasks[i].kind = "destroyNT"

\* destroy() was called at least twice, the teardown hook has called back and
\* the notifications it deferred have run.
DestroyedTwiceAndClosed ==
  /\ events["destroy()"] >= 2
  /\ teardown.state = "done"
  /\ ~DestroyNTQueued

\* A destroy() call on a stream already destroyed.
DestroyAgain ==
  /\ r.destroyed \/ w.destroyed
  /\ \E e \in Errs \cup {NoErr} : Destroy(e, FALSE)

\* C2 as claimed: after two or more destroy() calls and the completion of
\* the teardown, exactly one "close" was emitted.
C2_ExactlyOneClose == DestroyedTwiceAndClosed => events["close"] = 1

\* C2: after two or more destroy() calls and the completion of the teardown,
\* exactly one "close" was emitted when emitClose is enabled and none when the
\* stream was constructed with emitClose: false; and a destroy() call on a
\* destroyed stream changes no field of the ReadableState or WritableState.
C2_OneCloseWhenEnabled ==
  /\ [](DestroyedTwiceAndClosed =>
          events["close"] = IF r.emitClose \/ w.emitClose THEN 1 ELSE 0)
  /\ [][DestroyAgain => r' = r /\ w' = w]_vars

\* destroy(E1) and a second destroy() made from inside the teardown hook,
\* which then called back; "close" was emitted once.
C2_Witness ==
  /\ DestroyedTwiceAndClosed
  /\ opts.destroy
  /\ teardown.err = "E1"
  /\ events["close"] = 1

\* C3: in every state, the states inside the teardown hook and the deferred
\* notifications included, both sides are destroyed or neither is.
C3_DestroyedTogether == r.destroyed = w.destroyed

\* Inside the teardown hook, before it has called back.
C3_Witness ==
  /\ inDestroy
  /\ teardown.state = "running"
  /\ r.destroyed
  /\ w.destroyed

C5_ErrorAndCloseAtMostOnce == events["error"] <= 1 /\ events["close"] <= 1

\* A failure of one side was notified, then the stream was destroyed with
\* another error and closed.
C5_Witness ==
  /\ events["error"] = 1
  /\ events["close"] = 1
  /\ teardown.state = "done"
  /\ teardown.err # NoErr
  /\ r.errored # teardown.err

\* C6: the teardown hook is invoked by the first destroy() and by no later
\* one, and "close" is emitted only after the hook has called back.
C6_TeardownOnceThenClose ==
  /\ [](events["_destroy"] = IF events["destroy()"] >= 1 THEN 1 ELSE 0)
  /\ [](events["close"] > 0 => teardown.state = "done")
  /\ [][events["close"]' # events["close"] =>
          teardown.state = "done" /\ ~inDestroy]_vars

\* A user teardown hook that called back after destroy() had returned, two
\* destroy() calls, "close" emitted.
C6_Witness ==
  /\ opts.destroy
  /\ events["destroy()"] = 2
  /\ events["_destroy"] = 1
  /\ events["close"] = 1

\* end() is at line 680 or 687, in a call made after an earlier end() call,
\* with a callback.
SecondEndWithCallback ==
  /\ endpc # "idle"
  /\ events["end()"] >= 2
  /\ endCb = "pending"

\* C7 as claimed: the callback of a second end() is given the "already
\* finished" error, at whatever stage the first end() is.
C7_SecondEndAlreadyFinished ==
  SecondEndWithCallback => endErr = "ERR_STREAM_ALREADY_FINISHED"

\* C7: the callback of a second end() is given the "already finished" error
\* exactly when the write side has finished; before that it is given the
\* "destroyed" error on a destroyed stream and is otherwise registered, with
\* no error, to be called when the write side finishes. The error is handed
\* to the callback in a microtask, never raised by end().
C7_AlreadyFinishedOnceFinished ==
  /\ [](SecondEndWithCallback =>
          /\ endpc = "reporting"
          /\ endErr = IF w.finished THEN "ERR_STREAM_ALREADY_FINISHED"
                      ELSE IF w.destroyed THEN "ERR_STREAM_DESTROYED"
                      ELSE NoErr)
  /\ [][SecondEndWithCallback /\ endpc' = "idle" =>
          IF endErr = NoErr
          THEN /\ endCb' = "registered"
               /\ w'.onFinished = w.onFinished + 1
               /\ microtasks' = microtasks
          ELSE /\ endCb' = "deferred"
               /\ microtasks' = Append(microtasks, Task("endCb", endErr))]_vars

\* A second end(cb) on a finished write side has returned; its callback is
\* queued with the "already finished" error.
C7_Witness ==
  /\ endpc = "idle"
  /\ events["end()"] >= 2
  /\ w.finished
  /\ ~w.destroyed
  /\ endCb = "deferred"
  /\ endErr = "ERR_STREAM_ALREADY_FINISHED"
  /\ \E i \in 1..Len(microtasks) :
        microtasks[i] = Task("endCb", "ERR_STREAM_ALREADY_FINISHED")

\* C8 as claimed: end(cb) called on a destroyed stream gives cb the
\* "destroyed" error.
C8_EndAfterDestroyReportsDestroyed ==
  (endpc # "idle" /\ w.destroyed /\ endCb = "pending")
    => endErr = "ERR_STREAM_DESTROYED"

\* C9: the write side becomes finished only when every accepted write has
\* completed, in the order of acceptance, and the sink's _final, if there is
\* one, has called back; while it is finished no write is buffered or in
\* flight.
C9_FinishedAfterWritesAndFinal ==
  /\ [](w.finished =>
          /\ w.buffered = <<>>
          /\ sink.inflight = <<>>
          /\ ~w.writing
          /\ completed = accepted)
  /\ [][~w.finished /\ w'.finished =>
          /\ w.ending
          /\ completed' = accepted'
          /\ opts.final => sink'.final = "done"]_vars

\* Two writes and an end() with a last chunk; all three completed, _final
\* called back, and the write side finished.
C9_Witness ==
  /\ opts.final
  /\ sink.final = "done"
  /\ Len(accepted) = MaxWrite
  /\ completed = accepted
  /\ events["end()"] >= 1
  /\ w.finished

\* C10: in every state finished implies ended; and once ended is true no
\* write is accepted.
C10_FinishedEndedNoWrites ==
  /\ [](w.finished => w.ended)
  /\ [](w.ended => w.ending)
  /\ [][w.ended => accepted' = accepted /\ w'.ended]_vars

\* A write() refused after an end() that has finished.
C10_Witness ==
  /\ w.writable
  /\ w.finished
  /\ w.ended
  /\ writeErr = "ERR_STREAM_WRITE_AFTER_END"
  /\ accepted # <<>>

\* C11: in every state of the read side, endEmitted implies ended.
C11_EndEmittedImpliesEnded == r.endEmitted => r.ended

\* Chunks were pushed, then the end; the consumer read them all and "end" was
\* emitted.
C11_Witness ==
  /\ r.readable
  /\ pushed # <<>>
  /\ r.endEmitted
  /\ r.ended
  /\ events["end"] = 1

\* The length of what is buffered and unread: bytes, or objects.
Unread == Len(Buffered)

\* push(c) is called on a stream that is not flowing.
PausedPush(c) == r.flowing # "true" /\ Push(c)

\* The read side accepts chunks: not ended, not errored, not destroyed.
Accepting == ~r.ended /\ r.errored = NoErr /\ ~r.destroyed

C13_OneFillInFlight ==
  /\ [](events["fill"] <= 1)
  /\ [][events["fill"]' > events["fill"] => events["fill"] = 0]_vars

\* A read() called _read, which has not pushed yet; a later read() found the
\* buffer empty and returned null without calling _read again.
C13_Witness ==
  /\ events["fill"] = 1
  /\ r.reading
  /\ observed # <<>>
  /\ r.buffer = <<>>
  /\ ~r.ended
  /\ readRet = null

\* The read side has reached its end: "end" was emitted on a stream that was
\* constructed readable.
ReadEndReached == r.readable /\ r.endEmitted

\* Nothing of the write side is pending, and it has not failed: no queued
\* callback, no flush in flight, no _final running, no end() under way.
WriteQuiet ==
  /\ w.errored = NoErr
  /\ ~w.destroyed
  /\ microtasks = <<>>
  /\ sink.inflight = <<>>
  /\ sink.final # "running"
  /\ endpc = "idle"

\* C14: with allowHalfOpen false, once the read side has reached its end the
\* write side is ended, and unless it has failed it is finished as soon as
\* nothing of it is pending; with allowHalfOpen true the step in which the read side reaches
\* its end changes nothing of the write side, and the writes accepted have
\* all completed as soon as nothing is pending.
C14_HalfOpenPolicy ==
  /\ []((~opts.allowHalfOpen /\ ReadEndReached) => (w.ending /\ w.ended))
  /\ []((~opts.allowHalfOpen /\ ReadEndReached /\ WriteQuiet) => w.finished)
  /\ [][(opts.allowHalfOpen /\ ~r.endEmitted /\ r'.endEmitted) =>
          /\ w' = w
          /\ sink' = sink
          /\ accepted' = accepted
          /\ completed' = completed]_vars
  /\ []((opts.allowHalfOpen /\ ReadEndReached /\ WriteQuiet) =>
          completed = accepted)

\* allowHalfOpen false: a write was accepted, the read side reached its end,
\* no end() was called, and the write side has finished with the write
\* completed.
C14_Witness ==
  /\ ~opts.allowHalfOpen
  /\ ReadEndReached
  /\ events["end()"] = 0
  /\ accepted # <<>>
  /\ completed = accepted
  /\ w.finished

\* A step of end() (its entry or its return), or the step in which the write
\* side becomes finished.
WriteEndStep == endpc' # endpc \/ (~w.finished /\ w'.finished)

\* C15: a step of end(), and the step in which the write side becomes
\* finished, leave the read side's ended and endEmitted flags, its buffer,
\* its length and its flowing mode as they were, for either value of
\* allowHalfOpen.
C15_WriteEndLeavesReadSide ==
  [][WriteEndStep =>
       /\ r'.ended = r.ended
       /\ r'.endEmitted = r.endEmitted
       /\ r'.buffer = r.buffer
       /\ r'.length = r.length
       /\ r'.flowing = r.flowing]_vars

\* allowHalfOpen false: end() was called and the write side has finished,
\* while the read side has not ended and still holds a chunk.
C15_Witness ==
  /\ ~opts.allowHalfOpen
  /\ events["end()"] >= 1
  /\ w.finished
  /\ ~r.ended
  /\ ~r.endEmitted
  /\ r.buffer = <<<<"a">>>>

\* end() was called and its finishing sequence is under way or done: the
\* write side is ending and has not failed.
AfterEnd ==
  /\ events["end()"] >= 1
  /\ w.ending
  /\ w.errored = NoErr
  /\ ~w.destroyed

\* A write(c) called after an end() call: it is refused with the error of a
\* write after the end, and changes nothing of the write side or the sink.
WriteAfterEndRefused ==
  \A c \in Chunks :
    (Write(c) /\ AfterEnd) =>
      /\ writeErr' = "ERR_STREAM_WRITE_AFTER_END"
      /\ w' = w
      /\ sink' = sink
      /\ accepted' = accepted
      /\ microtasks' = microtasks

\* An end(c, cb) carrying a chunk, called after an end() call: an error is
\* chosen for cb, and the chunk is not accepted.
EndChunkAfterEndReported ==
  \A c \in Chunks :
    (End(c, TRUE) /\ AfterEnd) =>
      /\ endErr' # NoErr
      /\ accepted' = accepted

\* C16 as claimed: a write(), and an end(chunk, cb) carrying a chunk, issued
\* after end() was called report a failure to their caller and accept
\* nothing, leaving the finishing sequence as it was.
C16_WriteAfterEndReported ==
  /\ [][WriteAfterEndRefused]_vars
  /\ [][EndChunkAfterEndReported]_vars

\* completed is an initial part of accepted: no callback fired twice, none
\* fired before the callback of a write submitted earlier.
IsPrefix(s, t) ==
  /\ Len(s) <= Len(t)
  /\ \A i \in 1..Len(s) : s[i] = t[i]

\* The sink finishes a flush without error: the callbacks of exactly the
\* writes of that flush fire, once each, in the order of their submission.
FlushCompletes ==
  (sink.inflight # <<>> /\ SinkDone(NoErr)) =>
     completed' = completed \o sink.inflight

WriteReturnedFalse ==
  /\ accepted' # accepted
  /\ w'.length >= w'.highWaterMark

\* "drain" is emitted in this step.
DrainEmitted == events'["drain"] # events["drain"]

\* "drain" is emitted once, in an episode opened by a write() that returned
\* false, with the pending length at highWaterMark or below, and closes the
\* episode.
DrainClosesEpisode ==
  DrainEmitted =>
    /\ events'["drain"] = events["drain"] + 1
    /\ w.needDrain
    /\ ~w'.needDrain
    /\ w'.length <= w'.highWaterMark

\* An episode is opened by a write() returning false and by nothing else,
\* and closed by a "drain" and by nothing else.
EpisodeBounds ==
  /\ WriteReturnedFalse => w'.needDrain
  /\ (~w.needDrain /\ w'.needDrain) => WriteReturnedFalse
  /\ (w.needDrain /\ ~w'.needDrain) => DrainEmitted

\* The step that empties the pending writes of an open episode delivers
\* "drain", unless end() was called or the stream was destroyed.
DrainDelivered ==
  (/\ w.needDrain
   /\ w.length > 0
   /\ w'.length = 0
   /\ ~w'.ending
   /\ ~w'.destroyed) => DrainEmitted

Attached(d) == \E i \in 1..Len(r.pipes) : r.pipes[i] = d

\* What the source has delivered since sink d was attached.
SinceAttached(d) == SubSeq(observed, dests[d].from + 1, Len(observed))

\* Every chunk read from the source since d was attached was handed to
\* d.write, in order.
ForwardedInOrder ==
  \A d \in Dests : Attached(d) => dests[d].delivered = SinceAttached(d)

\* A sink that answered false and has not emitted "drain" since: the source
\* is paused and awaits its drain.
PausedForSink ==
  \A d \in Dests :
    (Attached(d) /\ dests[d].needDrain) =>
       /\ r.flowing = "false"
       /\ d \in r.awaitDrainWriters

\* Until sink d emits "drain", which it does in a DestDone(d) step, it is
\* handed nothing more.
NothingUntilDrain ==
  \A d \in Dests :
    (dests[d].needDrain /\ ~DestDone(d)) =>
       dests'[d].delivered = dests[d].delivered

\* The "drain" of the only sink awaited: the source flows again, or it has
\* flowed and a sink has answered false to a chunk of the resumed flow.
ResumedAtDrain ==
  \A d \in Dests :
    (/\ DestDone(d)
     /\ dests[d].needDrain
     /\ dests[d].pending = 1
     /\ r.awaitDrainWriters = {d}) =>
       \/ r'.flowing = "true"
       \/ /\ r'.awaitDrainWriters # {}
          /\ \E e \in Dests : dests'[e].delivered # dests[e].delivered

ReadablePending ==
  \E i \in 1..Len(microtasks) : microtasks[i].kind = "emitReadable_"

PushSharesPending ==
  \A c \in Chunks :
    (Push(c) /\ r.emittedReadable /\ ReadablePending /\ ~r.destroyed) =>
       microtasks' = microtasks

Destroyed == r.destroyed /\ w.destroyed

\* A read() call, or an end() call up to its return.
ReadOrEndCall ==
  \/ \E n \in {NaN, 3} : Read(n, [kind |-> "defer", chunk |-> null])
  \/ \E c \in {<<"a">>, null} : End(c, FALSE)
  \/ EndReturn

\* C22 as claimed, for read() and end(): once destroy() has been called,
\* a read() or end() call changes no field of the ReadableState or of the
\* WritableState.
C22_NoChangeAfterDestroy ==
  [][(Destroyed /\ ReadOrEndCall) => (r' = r /\ w' = w)]_vars

\* No deferred "error" notification is waiting in the queue.
NoErrorQueued ==
  \A i \in 1..Len(microtasks) :
    microtasks[i].kind \notin {"destroyNT", "emitErrorNT"}

\* C23 as claimed: the error passed to destroy() is recorded, the teardown
\* hook has completed and every deferred notification has run: exactly one
\* "error" was emitted.
C23_RecordedErrorNotified ==
  (/\ teardown.state = "done"
   /\ teardown.err # NoErr
   /\ r.errored = teardown.err
   /\ NoErrorQueued) => events["error"] = 1

\* The teardown hook completes with error e, inside destroy() for the hook
\* of the class and in a later call for a hook of the user: the deferred
\* notification of e is queued.
HookErrorQueued ==
  \A e \in Errs :
    (\/ DestroyHookCallback(e)
     \/ (Destroy(e, FALSE) /\ ~opts.destroy /\ ~r.destroyed /\ ~w.destroyed)) =>
       /\ Len(microtasks') = Len(microtasks) + 1
       /\ microtasks'[Len(microtasks')] = Task("destroyNT", e)

\* The deferred notification of a teardown: with an error of the hook
\* "error" has been emitted exactly once when it has run, now or for an
\* earlier failure of the stream; without one it emits no "error".
HookErrorNotified ==
  (RunMicrotask /\ Head(microtasks).kind = "destroyNT") =>
     IF Head(microtasks).err # NoErr
     THEN events'["error"] = 1
     ELSE events'["error"] = events["error"]

\* C23, amended: when the teardown hook completes with an error, its own
\* or the one passed to destroy() and handed on by the hook, one "error"
\* notification is deferred and, when it runs, exactly one "error" has been
\* emitted for the stream; when the hook completes without an error the
\* teardown emits none, whatever error destroy() recorded.
C23_HookErrorNotifiedOnce ==
  /\ [][HookErrorQueued]_vars
  /\ [][HookErrorNotified]_vars
  /\ [](events["error"] \in {0, 1})

\* destroy() without an error, a hook of the user that reported E1 after
\* destroy() had returned, and the one "error" emitted for it.
C23_Witness ==
  /\ opts.destroy
  /\ teardown.state = "done"
  /\ teardown.err = NoErr
  /\ r.errored = "E1"
  /\ events["error"] = 1
  /\ NoErrorQueued

PushAfterEndFails ==
  (Push(<<"a">>) /\ r.ended /\ ~r.destroyed /\ r.errored = NoErr) =>
     /\ r'.errored = "ERR_STREAM_PUSH_AFTER_EOF"
     /\ r'.buffer = r.buffer
     /\ r'.length = r.length
     /\ ~pushRet'

\* push(chunk) on a destroyed stream: nothing changes, no error is recorded
\* or notified, and push returns false.
PushAfterDestroyDropped ==
  (Push(<<"a">>) /\ r.destroyed) =>
     /\ r' = r
     /\ w' = w
     /\ microtasks' = microtasks
     /\ events' = events
     /\ ~pushRet'

ReadRaisesMark ==
  \A n \in ReadSizes, f \in Fills :
    Read(n, f) =>
      IF n # NaN /\ n > r.highWaterMark
      THEN r'.highWaterMark >= n
      ELSE r'.highWaterMark = r.highWaterMark

\* C25: the highWaterMark of the read side never decreases; a read(n) with
\* n above the mark raises it to n at least; a read(n) with n at or below
\* the mark, and a read() without an argument, leave it unchanged.
C25_HighWaterMarkGrowsOnly ==
  /\ [][r'.highWaterMark >= r.highWaterMark]_vars
  /\ [][ReadRaisesMark]_vars

\* read(3) on a stream constructed with highWaterMark 1 or 2: the mark is 4,
\* and the chunks pushed since fill the buffer up to it.
C25_Witness ==
  /\ r.highWaterMark = 4
  /\ r.length = 3
  /\ observed = <<>>

\* The size of what read() returned: nothing for null, 1 for an object, the
\* number of bytes otherwise.
ReturnedSize(ret) ==
  IF ret = null THEN 0 ELSE IF r.objectMode THEN 1 ELSE Len(ret)

\* A read() call lowers the length by the size of what it returns, counted
\* from the length with what its own _read pushed; a read() that returns
\* null, and whose _read pushed nothing, leaves the buffer and the length
\* as they were.
ReadLowersLength ==
  \A n \in ReadSizes, f \in Fills :
    Read(n, f) =>
      /\ r'.length =
           r.length + (Len(Produced') - Len(Produced)) - ReturnedSize(readRet')
      /\ (readRet' = null /\ pushed' = pushed) =>
            /\ r'.buffer = r.buffer
            /\ r'.length = r.length

LateDestroyCallsBack ==
  \A e \in {"E1", NoErr}, cb \in BOOLEAN :
    (Destroy(e, cb) /\ (r.destroyed \/ w.destroyed)) =>
       /\ events' = IF cb THEN [events EXCEPT !["destroyCb()"] = Inc(@)]
                    ELSE events
       /\ r' = r
       /\ w' = w
       /\ teardown' = teardown
       /\ microtasks' = microtasks

\* C27: destroy(err, cb) on a Duplex already destroyed calls cb without an
\* error, does not call the teardown hook, records err on neither side and
\* emits nothing, also when the first destroy() carried an error or its
\* teardown has not completed.
C27_LateDestroyOnlyCallsBack == [][LateDestroyCallsBack]_vars

\* destroy(E1) without a callback, the teardown hook of the user still
\* running, and a second destroy(err, cb) whose cb was called without an
\* error.
C27_Witness ==
  /\ opts.destroy
  /\ teardown.state = "running"
  /\ teardown.err = "E1"
  /\ ~teardown.cb
  /\ events["destroyCb()"] = 1
  /\ events["destroyCb(err)"] = 0
  /\ events["_destroy"] = 1

\* The strings selector(array[i]), for i from the given index to the end,
\* with the delimiter between each two of them.
RECURSIVE Joined(_, _, _, _)
Joined(array, selector, delimiter, i) ==
  IF i > Len(array) THEN <<>>
  ELSE IF i = Len(array) THEN select(selector, array[i])
  ELSE select(selector, array[i]) \o delimiter
         \o Joined(array, selector, delimiter, i + 1)

\* C28 as claimed: joinToString returns the selected strings of the array
\* in order with the delimiter between each adjacent pair, the empty string
\* for an empty array, and the array is as it was before the call.
C28_JoinedInOrder ==
  join.called =>
    /\ join.ret = Joined(join.before, join.selector, join.delimiter, 1)
    /\ join.array = join.before

\* The place of an outcome of destroy() in the order callback, "error",
\* "close".
Rank(name) ==
  IF name = "destroyCb(err)" THEN 1 ELSE IF name = "error" THEN 2 ELSE 3

\* The outcomes recorded so far came in the order callback, "error",
\* "close", each at most once.
OutcomesInOrder ==
  \A i, j \in 1..Len(events["log"]) :
    i < j => Rank(events["log"][i]) < Rank(events["log"][j])

\* The teardown hook completes with error e: the hook of the class inside
\* the first destroy(e, cb), a hook of the user in a later call.
HookCompletesWith(e) ==
  \/ DestroyHookCallback(e)
  \/ /\ \E cb \in BOOLEAN : Destroy(e, cb)
     /\ ~opts.destroy
     /\ ~r.destroyed
     /\ ~w.destroyed

\* In the step in which the hook completes with an error the callback of
\* destroy() is called with it, and neither "error" nor "close" is emitted.
CallbackInsideCompletion ==
  \A e \in {"E1", "E2"} :
    HookCompletesWith(e) =>
      /\ teardown'.cb => events'["destroyCb(err)"] = 1
      /\ events'["error"] = events["error"]
      /\ events'["close"] = events["close"]

\* "error" and "close" are emitted by a deferred task, outside destroy()
\* and outside the teardown hook.
NotifiedDeferred ==
  (events'["error"] # events["error"] \/ events'["close"] # events["close"]) =>
     /\ RunMicrotask
     /\ ~inDestroy
     /\ teardown.state = "done"

\* C29: when the teardown hook completes with an error the callback given
\* to destroy() is called first, inside the completion of the teardown, then
\* "error" is emitted, then "close"; "close" never comes before "error",
\* and neither is emitted inside destroy().
C29_CallbackErrorClose ==
  /\ [](OutcomesInOrder)
  /\ [][CallbackInsideCompletion]_vars
  /\ [][NotifiedDeferred]_vars

\* destroy(cb) with a hook of the user that reported E2: the callback, then
\* "error", then "close".
C29_Witness ==
  /\ opts.destroy
  /\ teardown.cb
  /\ events["log"] = <<"destroyCb(err)", "error", "close">>

----------------------------------------------------------------------------
(* end() on a corked write side: nested cork(), write(), uncork(), end(),   *)
(* the sink's flushes and destroy()                                         *)

CorkOptions == {[DefaultOptions EXCEPT !.writev = wv] : wv \in BOOLEAN}

InitCork == \E o \in CorkOptions : constructor(o, {"cork()", "uncork()"})

NextCork ==
  \/ \E c \in Chunks : Write(c)
  \/ Cork
  \/ Uncork
  \/ \E c \in Chunks \cup {null} : End(c, FALSE)
  \/ EndReturn
  \/ \E e \in {"E1", NoErr} : SinkDone(e)
  \/ \E e \in {"E1", NoErr} : Destroy(e, FALSE)
  \/ RunMicrotask

SpecCork == InitCork /\ [][NextCork]_vars

\* A call of end(), with a last chunk or without.
EndCall == \E c \in Chunks \cup {null} : End(c, FALSE)

\* end() leaves the cork counter at 0, whatever it was; when writes wait
\* behind the cork and the sink is free, the first of them (all of them when
\* the sink takes batches) is handed to the sink inside end().
EndUncorks ==
  EndCall =>
    /\ w'.corked = 0
    /\ (w.corked > 0 /\ w.buffered # <<>> /\ ~w.writing /\ ~w.destroyed) =>
          /\ sink'.inflight # <<>>
          /\ sink'.inflight[1] = w.buffered[1].id
          /\ Len(w'.buffered) < Len(w.buffered) + 1

\* The cork counter stays 0 up to the return of end().
EndReturnsUncorked == EndReturn => w.corked = 0 /\ w'.corked = 0

\* The write side becomes finished only with nothing left behind a cork:
\* every write accepted has been handed to the sink and completed.
FinishesFlushed ==
  (~w.finished /\ w'.finished) =>
     /\ w'.buffered = <<>>
     /\ \A i \in 1..Len(accepted') :
          \E j \in 1..Len(completed') : completed'[j] = accepted'[i]

\* C30: end() always leaves the write side uncorked: whatever the nesting
\* depth of cork() when it is called, the cork counter is 0 when end()
\* returns, and every write buffered while corked is handed to the sink
\* before the write side can finish.
C30_EndLeavesUncorked ==
  /\ [][EndUncorks]_vars
  /\ [][EndReturnsUncorked]_vars
  /\ [][FinishesFlushed]_vars

\* Inside end(), called at cork depth 2 with writes waiting: the counter is
\* 0 and the sink holds the first of them.
C30_Witness ==
  /\ events["cork()"] = 2
  /\ events["uncork()"] = 0
  /\ endpc = "ending"
  /\ w.corked = 0
  /\ Len(accepted) = 2
  /\ sink.inflight # <<>>
  /\ sink.inflight[1] = 1

\* The same stream later: finished, with both writes completed.
C30_WitnessFinished ==
  /\ events["cork()"] = 2
  /\ events["uncork()"] = 0
  /\ w.finished
  /\ completed = <<1, 2>>

----------------------------------------------------------------------------
(* The callback of end(): end() with and without a callback, the sink's     *)
(* flushes and _final, destroy()                                            *)

EndCbOptions == {[DefaultOptions EXCEPT !.final = f] : f \in BOOLEAN}

InitEndCb == \E o \in EndCbOptions : constructor(o, {"end(cb)", "endCb"})

\* At most MaxCount calls of end() are given a callback.
NextEndCb ==
  \/ Write(<<"a">>)
  \/ \E cb \in BOOLEAN :
        /\ cb => events["end(cb)"] < MaxCount
        /\ End(null, cb)
  \/ EndReturn
  \/ \E e \in {"E1", NoErr} : SinkDone(e)
  \/ \E e \in {"E1", NoErr} : FinalDone(e)
  \/ \E e \in {"E1", NoErr} : Destroy(e, FALSE)
  \/ RunMicrotask

SpecEndCb == InitEndCb /\ [][NextEndCb]_vars

\* The callbacks of end() queued to be called in a later tick.
RECURSIVE QueuedEndCb(_)
QueuedEndCb(q) ==
  IF q = <<>> THEN 0
  ELSE (IF Head(q).kind = "endCb" THEN 1 ELSE 0) + QueuedEndCb(Tail(q))

\* The callback of the end() call under way, not yet dealt with.
HeldByEnd == IF endpc # "idle" /\ endCb = "pending" THEN 1 ELSE 0

\* Every callback given to end() is in one place: held by the call, queued,
\* registered, or called; so none is called twice.
EachCallbackOnce ==
  events["endCb"] + QueuedEndCb(microtasks) + w.onFinished + HeldByEnd
    = events["end(cb)"]

\* No callback of end() is called while end() runs.
NotCalledInsideEnd ==
  ((\E cb \in BOOLEAN : End(null, cb)) \/ EndReturn) =>
     events'["endCb"] = events["endCb"]

\* end() returning with a callback: deferred when end() reports an error or
\* the write side is finished, registered otherwise.
DeferredOrRegistered ==
  (EndReturn /\ endCb = "pending") =>
     IF endErr # NoErr \/ w'.finished
     THEN /\ microtasks' = Append(microtasks, Task("endCb", endErr))
          /\ w'.onFinished = w.onFinished
     ELSE /\ microtasks' = microtasks
          /\ w'.onFinished = w.onFinished + 1

\* The registered callbacks are called when the write side becomes finished.
CalledAtFinish ==
  (~w.finished /\ w'.finished) =>
     /\ events'["endCb"] = events["endCb"] + w.onFinished
     /\ w'.onFinished = 0

\* C31: a callback given to end() is never called during the end() call and
\* is called at most once: it is deferred to a later tick when end() reports
\* an error or the write side is already finished, and otherwise registered
\* and called when the write side finishes.
C31_EndCallbackDeferredOnce ==
  /\ [](EachCallbackOnce)
  /\ [][NotCalledInsideEnd]_vars
  /\ [][DeferredOrRegistered]_vars
  /\ [][CalledAtFinish]_vars

\* Two end(cb) calls, the first registered and called at "finish", the second
\* deferred with the "already finished" error and called in its tick.
C31_Witness ==
  /\ events["end(cb)"] = 2
  /\ events["endCb"] = 2
  /\ endErr = "ERR_STREAM_ALREADY_FINISHED"
  /\ w.finished
  /\ microtasks = <<>>

\* A call of read(n) by the consumer, whatever the producer's _read does.
ReadCall == \E n \in ReadSizes, f \in Fills : Read(n, f)

\* The "end" notifications queued by endDuplex and not yet run.
RECURSIVE EndQueued(_)
EndQueued(q) ==
  IF q = <<>> THEN 0
  ELSE (IF Head(q).kind = "endReadableNT" THEN 1 ELSE 0) + EndQueued(Tail(q))

\* A read() call schedules the "end" notification only on an ended stream
\* that it leaves with an empty buffer.
ReadEndsOnlyWhenEmpty ==
  (EndQueued(microtasks') > EndQueued(microtasks) /\ ReadCall) =>
     /\ r'.ended
     /\ r'.length = 0
     /\ r'.buffer = <<>>

\* "end" is emitted only on an ended stream with an empty buffer.
EndOnlyWhenEmpty ==
  events'["end"] # events["end"] =>
     /\ r.ended
     /\ r.length = 0
     /\ r'.length = 0
     /\ r'.buffer = <<>>

\* read() on an ended stream with an empty buffer returns null.
ReadAtEndReturnsNull ==
  (r.ended /\ r.length = 0 /\ ReadCall) => readRet' = null

\* C32: the end of the read side is signalled only when the ended flag is
\* set and the buffer is empty: no read(n) signals the end while unread data
\* is buffered, and read() on an ended stream with an empty buffer returns
\* null.
C32_EndOnlyWhenEndedAndEmpty ==
  /\ [][ReadEndsOnlyWhenEmpty]_vars
  /\ [][EndOnlyWhenEmpty]_vars
  /\ [][ReadAtEndReturnsNull]_vars

\* A read() on an ended stream returned data and left some in the buffer:
\* no "end" is queued or emitted.
C32_Witness ==
  /\ r.ended
  /\ r.length > 0
  /\ readRet # null
  /\ observed # <<>>
  /\ EndQueued(microtasks) = 0
  /\ events["end"] = 0

\* The buffer of an ended stream was read to the last chunk: "end" was
\* emitted and read() returned null.
C32_WitnessEnd ==
  /\ r.ended
  /\ observed # <<>>
  /\ r.length = 0
  /\ events["end"] = 1
  /\ readRet = null

----------------------------------------------------------------------------
(* read() on a read side that is ended, errored or destroyed: the producer  *)
(* pushes and ends the data, pushes after the end, the stream is destroyed  *)

NoFillOptions ==
  {[DefaultOptions EXCEPT !.autoDestroy = ad, !.readable = rd,
                          !.readableHighWaterMark = 1] :
     ad \in BOOLEAN, rd \in BOOLEAN}

\* The producer's _read defers, or pushes a chunk or the end of the data.
NoFillFills ==
  {[kind |-> "defer", chunk |-> null]}
    \cup {[kind |-> "push", chunk |-> c] : c \in {<<"a">>, null}}

InitNoFill == \E o \in NoFillOptions : constructor(o, {"fill"})

\* read() is called while fewer than MaxCount fills were counted, so that
\* every fill shows in the count.
NextNoFill ==
  \/ \E c \in {<<"a">>, null} : Push(c)
  \/ \E n \in {NaN, 0, 2}, f \in NoFillFills :
        /\ events["fill"] < MaxCount
        /\ Read(n, f)
  \/ \E e \in {"E1", NoErr} : Destroy(e, FALSE)
  \/ RunMicrotask

SpecNoFill == InitNoFill /\ [][NextNoFill]_vars

\* The states in which read() must not ask the producer for data.
NoFillState ==
  \/ r.ended
  \/ r.destroyed
  \/ r.errored # NoErr
  \/ ~r.constructed

\* C33: read() never calls the producer's fill function on a stream whose
\* read side is ended, destroyed, errored or not yet constructed, whatever
\* the buffer level and needReadable; in those states read() leaves the
\* reading flag unchanged.
C33_NoFillWhenEndedOrDestroyed ==
  [][(NoFillState /\ \E n \in {NaN, 0, 2}, f \in NoFillFills : Read(n, f)) =>
        /\ events'["fill"] = events["fill"]
        /\ r'.reading = r.reading]_vars

\* read() has returned data of an ended stream that was below its mark with
\* needReadable set: no fill was ever made.
C33_Witness ==
  /\ r.ended
  /\ ~r.destroyed
  /\ readRet # null
  /\ r.length < r.highWaterMark
  /\ events["fill"] = 0

\* read(2) was called on a destroyed read side that never ended and never
\* held data: it raised the mark and made no fill.
C33_WitnessDestroyed ==
  /\ r.destroyed
  /\ ~r.ended
  /\ pushed = <<>>
  /\ r.highWaterMark = 2
  /\ events["fill"] = 0

----------------------------------------------------------------------------
(* read(0) and read(): a producer pushing, a consumer asking for nothing or *)
(* for everything, a fill function that defers or pushes                    *)

InitReadZero == \E o \in ReadOptions : constructor(o, {"read(n)"})

NextReadZero ==
  \/ \E c \in Chunks \cup {null} : Push(c)
  \/ \E n \in {NaN, 0}, f \in Fills : Read(n, f)
  \/ RunMicrotask

SpecReadZero == InitReadZero /\ [][NextReadZero]_vars

\* C34 as claimed: read(0) returns null, removes nothing from the buffer,
\* leaves the buffered length unchanged and emits no "data", in every state
\* and whatever the fill function does.
C34_ReadZeroLeavesBuffer ==
  [][(\E f \in Fills : Read(0, f)) =>
        /\ readRet' = null
        /\ r'.buffer = r.buffer
        /\ r'.length = r.length
        /\ observed' = observed]_vars

\* read(0) whose fill function does f: null is returned, no data is
\* delivered, what was buffered stays at the head of the buffer, and the
\* buffer grows only by the chunk the fill function pushed during the call.
ReadZeroConsumesNothing(f) ==
  Read(0, f) =>
     /\ readRet' = null
     /\ observed' = observed
     /\ IsPrefix(r.buffer, r'.buffer)
     /\ r'.length >= r.length
     /\ (r'.length # r.length \/ r'.buffer # r.buffer) =>
           /\ f.kind = "push"
           /\ f.chunk # null
           /\ r'.buffer = Append(r.buffer, f.chunk)
           /\ r'.length = r.length + chunkLength(r, f.chunk)

\* C34: read(0) never consumes data: it returns null, removes nothing from
\* the buffer and emits no "data"; the buffered length never decreases and
\* grows only by what the fill function, when read(0) calls it, pushes during
\* the call.
C34_ReadZeroConsumesNothing ==
  [][\A f \in Fills : ReadZeroConsumesNothing(f)]_vars

\* Only read(0) was ever called, and it called the fill function: the two
\* chunks pushed are in the buffer, nothing was delivered, null was returned.
C34_Witness ==
  /\ events["read(n)"] = 0
  /\ ~r.sync
  /\ ~r.reading
  /\ Len(r.buffer) = 2
  /\ Len(pushed) = 2
  /\ observed = <<>>
  /\ readRet = null

\* read() returning with an empty buffer on a stream that has not ended
\* leaves needReadable set.
EmptyReadAsksForWakeUp ==
  (r'.length = 0 /\ ~r'.ended /\ ReadCall) => r'.needReadable

\* The next push: a chunk pushed on a live, empty stream whose needReadable
\* is set.
PushOnEmpty(c) ==
  /\ r.needReadable
  /\ r.length = 0
  /\ ~r.ended
  /\ ~r.destroyed
  /\ r.errored = NoErr
  /\ Push(c)

WakeUpUnlessAsked ==
  \A c \in Chunks :
    PushOnEmpty(c) =>
       /\ r'.length > 0
       /\ ~r.emittedReadable => ReadablePending'
       /\ (r.emittedReadable /\ ~ReadablePending) => ~ReadablePending'

----------------------------------------------------------------------------
(* The modes of the read side: on("data"), on("readable"), pause() and      *)
(* resume(), a producer pushing, a consumer reading                         *)

ModeOptions == {[DefaultOptions EXCEPT !.autoDestroy = FALSE]}

InitMode == \E o \in ModeOptions : constructor(o, {"on(data)", "resume"})

NextMode ==
  \/ OnData
  \/ OnReadable
  \/ Pause
  \/ Resume
  \/ \E c \in {<<"a">>, null} : Push(c)
  \/ \E n \in {NaN, 0} : Read(n, [kind |-> "defer", chunk |-> null])
  \/ RunMicrotask

SpecMode == InitMode /\ [][NextMode]_vars

\* on("data") on a stream that was not paused: the stream is flowing and the
\* start of the flow is scheduled, unless it was flowing already.
DataListenerResumes ==
  (OnData /\ r.flowing # "false") =>
     /\ r'.flowing = "true"
     /\ r.flowing = "null" => r'.resumeScheduled
     /\ r.flowing = "true" => (r' = r /\ microtasks' = microtasks)
     /\ observed' = observed

\* on("data") on a paused stream changes nothing.
DataListenerKeepsPaused ==
  (OnData /\ r.flowing = "false") =>
     /\ r' = r
     /\ microtasks' = microtasks
     /\ observed' = observed
     /\ events'["resume"] = events["resume"]

\* While flowing is false the stream delivers data only to a read() call of
\* the consumer, and only resume() takes it out of that mode.
PausedUntilResume ==
  r.flowing = "false" =>
     /\ observed' # observed =>
          \E n \in {NaN, 0} : Read(n, [kind |-> "defer", chunk |-> null])
     /\ r'.flowing # "false" => Resume

C36_WitnessFlowing ==
  /\ events["on(data)"] = 1
  /\ events["resume"] = 1
  /\ r.flowing = "true"
  /\ observed # <<>>
  /\ readRet = null

\* The first "readable" listener on a stream whose "end" was not emitted:
\* the stream is paused; with data in the buffer a "readable" notification
\* is scheduled, which takes up the request needReadable; with an empty
\* buffer needReadable stays set and, unless a fill is under way, a read(0)
\* is scheduled.
FirstReadableListener ==
  (OnReadable /\ ~r.endEmitted /\ ~r.readableListening) =>
     /\ r'.readableListening
     /\ r'.flowing = "false"
     /\ observed' = observed
     /\ IF r.length > 0
        THEN /\ ReadablePending'
             /\ r'.emittedReadable
             /\ microtasks' = Append(microtasks, Task("emitReadable_", NoErr))
        ELSE /\ r'.needReadable
             /\ ~r'.emittedReadable
             /\ microtasks' = IF r.reading THEN microtasks
                              ELSE Append(microtasks,
                                          Task("nReadingNextTick", NoErr))

\* A "readable" listener attached after "end" was emitted, or after another
\* one, changes nothing.
LaterReadableListener ==
  (OnReadable /\ (r.endEmitted \/ r.readableListening)) =>
     /\ r' = r
     /\ microtasks' = microtasks
     /\ events' = events
     /\ observed' = observed

----------------------------------------------------------------------------
(* The "data" notification of read(): a producer pushing, a consumer        *)
(* reading, a fill function that defers or pushes, destroy()                *)

DataOptions ==
  {[DefaultOptions EXCEPT !.readableObjectMode = om] : om \in BOOLEAN}

InitData == \E o \in DataOptions : constructor(o, {"data", "last data"})

\* read() is called while fewer than MaxCount "data" notifications were
\* counted, so that every notification shows in the count.
NextData ==
  \/ \E c \in Chunks : Push(c)
  \/ \E n \in {NaN, 0, 1}, f \in NoFillFills :
        /\ events["data"] < MaxCount
        /\ Read(n, f)
  \/ \E e \in {"E1", NoErr} : Destroy(e, FALSE)
  \/ RunMicrotask

SpecData == InitData /\ [][NextData]_vars

\* A read() call that returns a value emits one "data" carrying that value,
\* unless "error" or "close" was emitted before; a read() call that returns
\* null emits none.
ReadEmitsWhatItReturns ==
  \A n \in {NaN, 0, 1}, f \in NoFillFills :
    ((readRet' # null \/ events' # events) /\ Read(n, f)) =>
      IF readRet' # null /\ ~r.errorEmitted /\ ~r.closeEmitted
      THEN /\ events'["data"] = events["data"] + 1
           /\ events'["last data"] = readRet'
      ELSE /\ events'["data"] = events["data"]
           /\ events'["last data"] = events["last data"]

\* What read() returns is taken from the head of the buffer and is no
\* longer in it.
ReadRemovesWhatItReturns ==
  \A n \in {NaN, 0, 1} :
    ((readRet' # null \/ r'.buffer # r.buffer)
       /\ Read(n, [kind |-> "defer", chunk |-> null])) =>
      IF readRet' = null THEN r'.buffer = r.buffer
      ELSE IF r.objectMode THEN r.buffer = <<readRet'>> \o r'.buffer
      ELSE Flatten(r.buffer) = readRet' \o Flatten(r'.buffer)

\* C38: every chunk removed from the read buffer is delivered exactly once:
\* each read() call that returns a value other than null emits a single
\* "data" notification carrying exactly that value, unless an error or
\* close notification has already been emitted, and read() emits no "data"
\* when it returns null.
C38_ReadDeliversOnce ==
  /\ [][ReadEmitsWhatItReturns]_vars
  /\ [][ReadRemovesWhatItReturns]_vars

\* read(1) returned the first byte of a chunk of two: one "data"
\* carried it and the second byte is still buffered.
C38_Witness ==
  /\ readRet = <<"b">>
  /\ events["data"] = 1
  /\ events["last data"] = <<"b">>
  /\ r.buffer = <<<<"c">>>>
  /\ ~r.destroyed

\* read() returned data of a stream whose "close" was emitted: no "data".
C38_WitnessClosed ==
  /\ r.closeEmitted
  /\ readRet # null
  /\ observed = readRet
  /\ events["data"] = 0

====
